---- MODULE Spec2Model ----
(***************************************************************************)
(* Usage / period / interval derivation of the AI-query service           *)
(* (domains/ai-query/ai-query-service.ts): detectPeriods,                  *)
(* calculateIntervals and the per-tag enhancement step of getRelevantData. *)
(*                                                                         *)
(* Strings are modelled by what the code does with them.  A date string   *)
(* is a record: "YYYY-MM-DD" (four-digit year, two-digit month and day)   *)
(* is [txt |-> "", y, m, d]; any other text is [txt |-> <the text>].      *)
(* A JavaScript number is [nan, v], so that NaN can be told from a value. *)
(***************************************************************************)
EXTENDS Integers, Sequences, FiniteSets, TLC

VARIABLES
  pc,          \* "ready" before the call under study, "done" after it
  dates,       \* detectPeriods: the caller's array of date strings
  periods,     \* detectPeriods: the array it returned
  signal,      \* detectPeriods: "none" | "returned" | "ParseError"
  logs,        \* calculateIntervals: the caller's array of logs
  argLogs,     \* calculateIntervals: the array as it was when the call was made
  trackerTag,  \* calculateIntervals: the tag it is called with
  result,      \* calculateIntervals: the object it returned
  usage,       \* getRelevantData: one entry of usageData (trackable, dates, values)
  baseData,    \* getRelevantData: the enhanced record built for that entry
  ledger,      \* LedgerStore: the stored logs
  known,       \* loadToday: props.knownTrackables
  calls,       \* loadToday: the locals of each invocation
  store,       \* TodayStore: date, usage, usageHash, showController
  ask,         \* answerQuestion: the invocation, its timer and its promise
  wizard,      \* tracker configuration: the config and the last response
  creation,    \* handleEntryCreation: the invocation, the trackers and the saved logs
  view         \* chat view: messages, loading, pendingValueRequest, operations

periodVars == <<dates, periods, signal>>
intervalVars == <<logs, argLogs, trackerTag, result>>
usageVars == <<usage, baseData>>
todayVars == <<ledger, known, calls, store>>
chatVars == <<ask, wizard, creation, view>>
vars ==
  <<pc, dates, periods, signal, logs, argLogs, trackerTag, result, usage, baseData,
    ledger, known, calls, store, ask, wizard, creation, view>>

(***************************************************************************)
(* Bounds of the model.                                                    *)
(***************************************************************************)
MaxDates == 3
MaxLogs == 3
MaxUsage == 3
MaxDuration == 3
MaxLedger == 3
MaxRaceLogs == 1

\* The chat operations the user starts (texts submitted, buttons of a
\* tracker creation, values submitted).
MaxOps == 4

\* The earlier messages of a chat in which handleSubmit is called.
MaxHistory == 3

(***************************************************************************)
(* Arrays.                                                                 *)
(***************************************************************************)
\* The arrays over S of length at most n.
SeqsUpTo(S, n) == UNION { [1..k -> S] : k \in 0..n }

Range(s) == { s[i] : i \in 1..Len(s) }

\* s with the elements at i and j exchanged.
Swap(s, i, j) ==
  [k \in 1..Len(s) |-> IF k = i THEN s[j] ELSE IF k = j THEN s[i] ELSE s[k]]

\* Every reordering of s.
PermutationsOf(s) ==
  { [k \in 1..Len(s) |-> s[p[k]]] : p \in Permutations(1..Len(s)) }

(***************************************************************************)
(* JavaScript numbers and strings.                                         *)
(***************************************************************************)
Num(v) == [nan |-> FALSE, v |-> v]
NaN == [nan |-> TRUE, v |-> 0]

\* x <= n in JavaScript: every comparison with NaN is false.
JsLeq(x, n) == (~x.nan) /\ x.v <= n

\* x + n in JavaScript.
JsAdd(x, n) == IF x.nan THEN NaN ELSE Num(x.v + n)

DateStr(y, m, d) == [txt |-> "", y |-> y, m |-> m, d |-> d]
TextStr(t) == [txt |-> t, y |-> 0, m |-> 0, d |-> 0]

\* The string 'Invalid Date' is what format() gives for an invalid dayjs.
InvalidDateStr == TextStr("Invalid Date")

\* a < b by UTF-16 code units, the order of Array.prototype.sort() without a
\* comparator.  Two "YYYY-MM-DD" strings compare field by field (all fields
\* are zero padded); a digit sorts before any letter.
StrLess(a, b) ==
  IF a.txt = "" /\ b.txt = ""
    THEN \/ a.y < b.y
         \/ (a.y = b.y /\ a.m < b.m)
         \/ (a.y = b.y /\ a.m = b.m /\ a.d < b.d)
    ELSE a.txt = "" /\ b.txt # ""

(***************************************************************************)
(* dayjs.  A dayjs value is [valid, day]: day counts days from            *)
(* 1970-01-01 in the local calendar.                                       *)
(***************************************************************************)
\* Days from 1970-01-01 to the civil date y-m-d; linear in d, so a day past
\* the end of the month runs into the next month as new Date(y, m-1, d) does.
DaysFromCivil(y, m, d) ==
  LET yy == IF m <= 2 THEN y - 1 ELSE y
      era == yy \div 400
      yoe == yy - era * 400
      mp == IF m > 2 THEN m - 3 ELSE m + 9
      doy == (153 * mp + 2) \div 5 + d - 1
      doe == yoe * 365 + yoe \div 4 - yoe \div 100 + doy
  IN era * 146097 + doe - 719468

\* The civil date of a day number.
CivilFromDays(z) ==
  LET zz == z + 719468
      era == zz \div 146097
      doe == zz - era * 146097
      yoe == (doe - doe \div 1460 + doe \div 36524 - doe \div 146096) \div 365
      doy == doe - (365 * yoe + yoe \div 4 - yoe \div 100)
      mp == (5 * doy + 2) \div 153
      d == doy - (153 * mp + 2) \div 5 + 1
      m == IF mp < 10 THEN mp + 3 ELSE mp - 9
      y == yoe + era * 400 + (IF m <= 2 THEN 1 ELSE 0)
  IN [y |-> y, m |-> m, d |-> d]

\* dayjs(str): a string of the form YYYY-MM-DD goes through
\* new Date(y, m - 1, d); anything else is an Invalid Date.
Dayjs(s) ==
  IF s.txt = ""
    THEN [valid |-> TRUE, day |-> DaysFromCivil(s.y, s.m, s.d)]
    ELSE [valid |-> FALSE, day |-> 0]

\* a.diff(b, 'day'): whole days between two local midnights; NaN when either
\* side is invalid.
DiffDay(a, b) == IF a.valid /\ b.valid THEN Num(a.day - b.day) ELSE NaN

\* x.format('YYYY-MM-DD')
Format(x) ==
  IF x.valid
    THEN LET c == CivilFromDays(x.day) IN DateStr(c.y, c.m, c.d)
    ELSE InvalidDateStr

\* x.add(i, 'day')
AddDays(x, i) == IF x.valid THEN [valid |-> TRUE, day |-> x.day + i] ELSE x

(***************************************************************************)
(* Array.prototype.sort() on strings: a stable sort by StrLess.            *)
(***************************************************************************)
RECURSIVE InsertString(_, _)
InsertString(x, s) ==
  IF s = <<>> THEN <<x>>
  ELSE IF StrLess(x, Head(s)) THEN <<x>> \o s
  ELSE <<Head(s)>> \o InsertString(x, Tail(s))

RECURSIVE SortStringsFrom(_, _)
SortStringsFrom(s, acc) ==
  IF s = <<>> THEN acc ELSE SortStringsFrom(Tail(s), InsertString(Head(s), acc))

\* Mutation: the scan runs on the array as given.
SortStrings_unsorted(s) == s

SortStrings(s) == SortStringsFrom(s, <<>>)

(***************************************************************************)
(* detectPeriods                                                           *)
(***************************************************************************)
\* Mutation: only a repeated day extends the current period.
ExtendsPeriod_strict(previous, current) ==
  JsLeq(DiffDay(Dayjs(current), Dayjs(previous)), 0)

\* daysDiff <= 1
ExtendsPeriod(previous, current) ==
  JsLeq(DiffDay(Dayjs(current), Dayjs(previous)), 1)

\* Mutation: the duration is the difference of the two ends.
MakePeriod_exclusive(currentPeriodStart, currentPeriodEnd) ==
  [start |-> currentPeriodStart,
   end |-> currentPeriodEnd,
   duration |-> DiffDay(Dayjs(currentPeriodEnd), Dayjs(currentPeriodStart))]

MakePeriod(currentPeriodStart, currentPeriodEnd) ==
  [start |-> currentPeriodStart,
   end |-> currentPeriodEnd,
   duration |->
     JsAdd(DiffDay(Dayjs(currentPeriodEnd), Dayjs(currentPeriodStart)), 1)]

\* The loop over i = 1 .. length-1 (here i = 2 .. Len) and the final push.
RECURSIVE ScanPeriods(_, _, _, _, _)
ScanPeriods(sortedDates, i, currentPeriodStart, currentPeriodEnd, acc) ==
  IF i > Len(sortedDates)
    THEN Append(acc, MakePeriod(currentPeriodStart, currentPeriodEnd))
  ELSE IF ExtendsPeriod(sortedDates[i - 1], sortedDates[i])
    THEN ScanPeriods(sortedDates, i + 1, currentPeriodStart, sortedDates[i], acc)
  ELSE ScanPeriods(sortedDates, i + 1, sortedDates[i], sortedDates[i],
                   Append(acc, MakePeriod(currentPeriodStart, currentPeriodEnd)))

detectPeriods(ds) ==
  IF Len(ds) = 0 THEN <<>>
  ELSE LET sortedDates == SortStrings(ds)
       IN ScanPeriods(sortedDates, 2, sortedDates[1], sortedDates[1], <<>>)

(***************************************************************************)
(* Tags.  A tag string is [hashes, name]: `hashes` leading '#' characters  *)
(* followed by a name that does not start with '#'.  The id of a tracker   *)
(* element of a log is the bare name (no prefix).                          *)
(***************************************************************************)
Tag(n, name) == [hashes |-> n, name |-> name]

\* trackerTag.startsWith('#') ? trackerTag.slice(1) : trackerTag
NormalizeTag(t) == IF t.hashes > 0 THEN Tag(t.hashes - 1, t.name) ELSE t

\* log.getMeta(): parses the note into log.trackers.
getMeta(log) == [log EXCEPT !.loaded = TRUE]

\* The log as the filter callback leaves it: meta is loaded when it was not.
EnsureMeta(log) == IF ~log.loaded THEN getMeta(log) ELSE log

\* Mutation: the earlier variant, which compares with the tag as given.
TrackerFound_exact(log, tag) == \E id \in log.ids : id = tag

\* Mutation: every log that names a tracker is kept.
TrackerFound_any(log, tag) == log.ids # {}

\* log.trackers?.find((t) => t.id === normalizedTag || t.id === trackerTag)
TrackerFound(log, tag) ==
  \E id \in log.ids : id = NormalizeTag(tag) \/ id = tag

RECURSIVE FilterLogs(_, _)
FilterLogs(ls, tag) ==
  IF ls = <<>> THEN <<>>
  ELSE IF TrackerFound(EnsureMeta(Head(ls)), tag)
    THEN <<EnsureMeta(Head(ls))>> \o FilterLogs(Tail(ls), tag)
  ELSE FilterLogs(Tail(ls), tag)

\* .sort((a, b) => dayjs(a.end).valueOf() - dayjs(b.end).valueOf()): stable,
\* ascending by end.
RECURSIVE InsertLog(_, _)
InsertLog(x, s) ==
  IF s = <<>> THEN <<x>>
  ELSE IF x.end - Head(s).end < 0 THEN <<x>> \o s
  ELSE <<Head(s)>> \o InsertLog(x, Tail(s))

RECURSIVE SortLogsFrom(_, _)
SortLogsFrom(s, acc) ==
  IF s = <<>> THEN acc ELSE SortLogsFrom(Tail(s), InsertLog(Head(s), acc))

\* Mutation: the matching logs are taken in the order of the input.
SortLogs_unsorted(s) == s

SortLogs(s) == SortLogsFrom(s, <<>>)

\* The caller's array after the call: filter() builds a new array and sort()
\* sorts that one, so the elements stay where they were; the callback has
\* loaded the meta of every element.
CallerArrayAfter(ls) == [i \in 1..Len(ls) |-> EnsureMeta(ls[i])]

(***************************************************************************)
(* Number formatting.                                                      *)
(***************************************************************************)
\* `${n} ${unit}${n !== 1 ? 's' : ''}`
Plural(n, unit) == ToString(n) \o " " \o unit \o (IF n # 1 THEN "s" ELSE "")

\* Truncation toward zero of a / b (b > 0), dayjs's absFloor.
TruncDiv(a, b) == IF a >= 0 THEN a \div b ELSE -((-a) \div b)

\* a % b in JavaScript (b > 0): the sign of the dividend.
JsRem(a, b) == IF a >= 0 THEN a % b ELSE -((-a) % b)

\* Mutation: the difference is rounded to the nearest minute.
DiffMinute_rounded(curr, prev) == (curr - prev + 30000) \div 60000

\* curr.diff(prev, 'minute') for two timestamps in milliseconds.
DiffMinute(curr, prev) == TruncDiv(curr - prev, 60000)

\* 2^e mod n
RECURSIVE PowMod2(_, _)
PowMod2(e, n) == IF e = 0 THEN 1 % n ELSE (2 * PowMod2(e - 1, n)) % n

\* The least s >= 1 with a * 2^s >= b, for 0 < a < b.
RECURSIVE ShiftToUnit(_, _, _)
ShiftToUnit(a, b, s) == IF a * 2 >= b THEN s ELSE ShiftToUnit(a * 2, b, s + 1)

\* The sign of fl(a / b) - a / b for integers 0 < a < b, where fl is the IEEE
\* 754 double nearest to the quotient (53-bit significand, ties to even):
\* with a / b in [2^-s, 2^-(s-1)) the significand is a * 2^(52+s) / b, and the
\* remainder of that division decides the direction of rounding.
DoubleQuotientError(a, b) ==
  LET e == 52 + ShiftToUnit(a, b, 1)
      r == (a * PowMod2(e, b)) % b
      odd == ((a * PowMod2(e, 2 * b)) % (2 * b)) >= b
  IN IF r = 0 THEN 0
     ELSE IF 2 * r < b THEN -1
     ELSE IF 2 * r > b THEN 1
     ELSE IF odd THEN 1 ELSE -1

\* The number of tenths printed by (totalMinutes / n / 60).toFixed(1): the
\* integer t for which t / 10 is nearest to the double; of two equally near,
\* the larger.  The double differs from the exact quotient by less than
\* 2^-53, so only an exact half-way quotient can be moved by it; there
\* totalMinutes / n is a whole number A and the double is fl(A / 60).
TenthsOfHours(totalMinutes, n) ==
  LET lo == totalMinutes \div (6 * n)
      r == totalMinutes % (6 * n)
  IN IF 2 * r < 6 * n THEN lo
     ELSE IF 2 * r > 6 * n THEN lo + 1
     ELSE IF DoubleQuotientError(totalMinutes \div n, 60) >= 0 THEN lo + 1
     ELSE lo

\* The digits of x.toFixed(1) for x = tenths / 10 >= 0
Fixed1(tenths) == ToString(tenths \div 10) \o "." \o ToString(tenths % 10)

\* (totalMinutes / n / 60).toFixed(1); toFixed formats -x and puts '-' before it.
HoursToFixed1(totalMinutes, n) ==
  IF totalMinutes < 0
    THEN "-" \o Fixed1(TenthsOfHours(-totalMinutes, n))
    ELSE Fixed1(TenthsOfHours(totalMinutes, n))

\* A rational num / den (den > 0) for the averages, which need not be whole.
Rat(num, den) == [num |-> num, den |-> den]

(***************************************************************************)
(* calculateIntervals                                                      *)
(***************************************************************************)
FormatInterval(hours, minutes) ==
  IF hours > 0
    THEN IF minutes > 0
           THEN Plural(hours, "hour") \o " " \o Plural(minutes, "minute")
           ELSE Plural(hours, "hour")
    ELSE Plural(minutes, "minute")

\* One pass of the loop body: the interval between two consecutive logs.
MakeInterval(prev, curr) ==
  LET diffMinutes == DiffMinute(curr.end, prev.end)
      hours == diffMinutes \div 60
      minutes == JsRem(diffMinutes, 60)
  IN [hours |-> hours, minutes |-> minutes,
      formatted |-> FormatInterval(hours, minutes)]

IntervalsOf(trackerLogs) ==
  [i \in 1..(Len(trackerLogs) - 1) |-> MakeInterval(trackerLogs[i], trackerLogs[i + 1])]

RECURSIVE SumMinutes(_)
SumMinutes(intervals) ==
  IF intervals = <<>> THEN 0
  ELSE Head(intervals).hours * 60 + Head(intervals).minutes + SumMinutes(Tail(intervals))

\* The average of the intervals, formatted.
FormatAverage(totalMinutes, n) ==
  LET avgHours == totalMinutes \div (60 * n)
      avgMins == (2 * (totalMinutes % (60 * n)) + n) \div (2 * n)
  IN IF totalMinutes < 60 * n
       THEN HoursToFixed1(totalMinutes, n) \o " hours"
       ELSE IF avgMins > 0
              THEN Plural(avgHours, "hour") \o " " \o Plural(avgMins, "minute")
              ELSE Plural(avgHours, "hour")

EmptyResult ==
  [intervals |-> <<>>,
   averageHours |-> Rat(0, 1),
   averageMinutes |-> Rat(0, 1),
   averageFormatted |-> "N/A (need at least 2 entries)"]

\* trackerLogs.length < 2
TooFewLogs(trackerLogs) == Len(trackerLogs) < 2

calculateIntervals(ls, tag) ==
  LET trackerLogs == SortLogs(FilterLogs(ls, tag))
  IN IF TooFewLogs(trackerLogs) THEN EmptyResult
     ELSE LET intervals == IntervalsOf(trackerLogs)
              totalMinutes == SumMinutes(intervals)
          IN [intervals |-> intervals,
              averageHours |-> Rat(totalMinutes, 60 * Len(intervals)),
              averageMinutes |-> Rat(totalMinutes, Len(intervals)),
              averageFormatted |-> FormatAverage(totalMinutes, Len(intervals))]

(***************************************************************************)
(* getRelevantData: the enhancement of one usage entry (the body of the   *)
(* reduce over the tags of usageData).  An optional field of the record    *)
(* is a sequence of length 0 (absent) or 1.                                *)
(***************************************************************************)
\* new Set<string>().add(x): insertion order, no duplicates.
SetAdd(set, x) == IF x \in Range(set) THEN set ELSE Append(set, x)

\* Mutation: the inner loop runs one day too far.
RECURSIVE AddDuration_inclusive(_, _, _, _)
AddDuration_inclusive(set, dateStr, i, duration) ==
  IF i > duration THEN set
  ELSE AddDuration_inclusive(SetAdd(set, Format(AddDays(Dayjs(dateStr), i))),
                             dateStr, i + 1, duration)

\* for (let i = 0; i < duration; i++)
\*   dateSet.add(startDate.add(i, 'day').format('YYYY-MM-DD'))
RECURSIVE AddDuration(_, _, _, _)
AddDuration(set, dateStr, i, duration) ==
  IF i >= duration THEN set
  ELSE AddDuration(SetAdd(set, Format(AddDays(Dayjs(dateStr), i))),
                   dateStr, i + 1, duration)

\* dates.forEach(...) over the log dates.
RECURSIVE ExpandInto(_, _, _)
ExpandInto(set, ds, duration) ==
  IF ds = <<>> THEN set
  ELSE ExpandInto(AddDuration(set, Head(ds), 0, duration), Tail(ds), duration)

\* trackable?.type === 'context' && trackable?.ctx?.duration && duration > 1
\* (an absent duration is 0 here).
HasLongDuration(trackable) == trackable.type = "context" /\ trackable.duration > 1

ExpandedDates(trackable, ds) ==
  IF HasLongDuration(trackable)
    THEN SortStrings(ExpandInto(<<>>, ds, trackable.duration))
    ELSE ds

\* Mutation: a missing value is kept and counted as zero.
NotNaN_asZero(values) ==
  [i \in 1..Len(values) |-> IF values[i].nan THEN Num(0) ELSE values[i]]

\* usage.values.filter((v) => !isNaN(v))
RECURSIVE NotNaN(_)
NotNaN(values) ==
  IF values = <<>> THEN <<>>
  ELSE IF Head(values).nan THEN NotNaN(Tail(values))
  ELSE <<Head(values)>> \o NotNaN(Tail(values))

RECURSIVE SumValues(_)
SumValues(values) ==
  IF values = <<>> THEN 0 ELSE Head(values).v + SumValues(Tail(values))

\* [...periods].sort((a, b) => dayjs(b.end).diff(dayjs(a.end))): stable,
\* latest end first.
RECURSIVE InsertPeriod(_, _)
InsertPeriod(x, s) ==
  IF s = <<>> THEN <<x>>
  ELSE IF Dayjs(Head(s).end).day - Dayjs(x.end).day < 0 THEN <<x>> \o s
  ELSE <<Head(s)>> \o InsertPeriod(x, Tail(s))

RECURSIVE SortPeriodsFrom(_, _)
SortPeriodsFrom(s, acc) ==
  IF s = <<>> THEN acc ELSE SortPeriodsFrom(Tail(s), InsertPeriod(Head(s), acc))

\* Mutation: a later period of the same duration replaces the longest so far.
RECURSIVE LongestFrom_last(_, _)
LongestFrom_last(ps, longest) ==
  IF ps = <<>> THEN longest
  ELSE IF (~Head(ps).duration.nan) /\ (~longest.duration.nan)
          /\ Head(ps).duration.v >= longest.duration.v
    THEN LongestFrom_last(Tail(ps), Head(ps))
  ELSE LongestFrom_last(Tail(ps), longest)

\* periods.reduce((longest, p) => p.duration > longest.duration ? p : longest, periods[0])
RECURSIVE LongestFrom(_, _)
LongestFrom(ps, longest) ==
  IF ps = <<>> THEN longest
  ELSE IF (~Head(ps).duration.nan) /\ (~longest.duration.nan)
          /\ Head(ps).duration.v > longest.duration.v
    THEN LongestFrom(Tail(ps), Head(ps))
  ELSE LongestFrom(Tail(ps), longest)

\* Mutation: periods are detected for every tracker.
WantsPeriods_anyTracker(trackable) ==
  trackable.type = "context" \/ trackable.type = "tracker"

\* trackable is a context, or a tracker of type tick
WantsPeriods(trackable) ==
  \/ trackable.type = "context"
  \/ (trackable.type = "tracker" /\ trackable.trackerType = "tick")

\* Mutation: one counted value is enough to ask for intervals.
WantsIntervals_one(trackable, count) == trackable.type = "tracker" /\ count > 0

\* trackable?.type === 'tracker' && baseData.count > 1
WantsIntervals(trackable, count) == trackable.type = "tracker" /\ count > 1

\* The entries attached for a tracker: the logs of the tag, ascending by
\* end, each reduced to its timestamp.
EntriesOf(ls, tag) ==
  LET trackerLogs == SortLogs(FilterLogs(ls, tag))
  IN [i \in 1..Len(trackerLogs) |-> [timestamp |-> trackerLogs[i].end]]

\* The record built for one usage entry (key `tag` of usageData) from the
\* entry and the queried logs: baseData, the period fields and the interval
\* fields.
EnhancedUsage(u, ls) ==
  LET trackable == u.trackable
      tag == trackable.tag
      ds == [i \in 1..Len(u.dates) |-> Format(u.dates[i])]
      expandedDates == ExpandedDates(trackable, ds)
      numeric == NotNaN(u.values)
      ps == detectPeriods(expandedDates)
      wantsIntervals == WantsIntervals(trackable, Len(numeric))
      intervalData == calculateIntervals(ls, tag)
  IN [tag |-> trackable.tag,
      values |-> u.values,
      dates |-> ds,
      expandedDates |-> expandedDates,
      average |-> IF Len(numeric) > 0
                    THEN Rat(SumValues(numeric), Len(numeric))
                    ELSE Rat(0, 1),
      count |-> Len(numeric),
      contextDuration |->
        IF trackable.type = "context"
          THEN <<IF trackable.duration # 0 THEN trackable.duration ELSE 1>>
          ELSE <<>>,
      periods |-> IF WantsPeriods(trackable) THEN <<ps>> ELSE <<>>,
      periodCount |-> IF WantsPeriods(trackable) THEN <<Len(ps)>> ELSE <<>>,
      lastPeriod |->
        IF WantsPeriods(trackable) /\ Len(ps) > 0
          THEN <<SortPeriodsFrom(ps, <<>>)[1]>> ELSE <<>>,
      longestPeriod |->
        IF WantsPeriods(trackable) /\ Len(ps) > 0
          THEN <<LongestFrom(ps, ps[1])>> ELSE <<>>,
      intervals |-> IF wantsIntervals THEN <<intervalData.intervals>> ELSE <<>>,
      averageInterval |->
        IF wantsIntervals THEN <<intervalData.averageFormatted>> ELSE <<>>,
      averageIntervalHours |->
        IF wantsIntervals THEN <<intervalData.averageHours>> ELSE <<>>,
      averageIntervalMinutes |->
        IF wantsIntervals THEN <<intervalData.averageMinutes>> ELSE <<>>,
      entries |-> IF wantsIntervals THEN <<EntriesOf(ls, tag)>> ELSE <<>>]

\* The queried logs after the reduce step: calculateIntervals and the
\* filter for the entries load the meta of every log they look at.
LogsAfterEnhance(u, ls) ==
  IF WantsIntervals(u.trackable, Len(NotNaN(u.values)))
    THEN CallerArrayAfter(ls) ELSE ls

(***************************************************************************)
(* Inputs of the period detector.                                          *)
(***************************************************************************)
\* The date strings a call may be given: days around a year end, around the
\* end of February of a leap year, the days of the documented scenario, a
\* day that does not exist, and the text of an invalid dayjs.
DateStrings ==
  { DateStr(2023, 12, 31), DateStr(2024, 1, 1), DateStr(2024, 1, 2),
    DateStr(2024, 1, 5), DateStr(2024, 2, 28), DateStr(2024, 2, 29),
    DateStr(2024, 3, 1), DateStr(2024, 2, 30), InvalidDateStr }

IsLeapYear(y) == (y % 4 = 0 /\ y % 100 # 0) \/ y % 400 = 0

DaysInMonth(y, m) ==
  IF m = 2 THEN (IF IsLeapYear(y) THEN 29 ELSE 28)
  ELSE IF m \in {4, 6, 9, 11} THEN 30 ELSE 31

\* An ISO calendar date: YYYY-MM-DD naming a day that exists.
IsValidDate(s) ==
  s.txt = "" /\ s.m \in 1..12 /\ s.d \in 1..DaysInMonth(s.y, s.m)

(***************************************************************************)
(* The period detector as a state machine: the caller holds an array of   *)
(* date strings, may reorder it, and calls detectPeriods on it.           *)
(***************************************************************************)
IdlePeriods == dates = <<>> /\ periods = <<>> /\ signal = "none"

IdleIntervals ==
  logs = <<>> /\ argLogs = <<>> /\ trackerTag = Tag(0, "") /\ result = EmptyResult

NoTrackable ==
  [type |-> "none", trackerType |-> "none", duration |-> 0, tag |-> Tag(0, "")]

IdleUsage ==
  /\ usage = [trackable |-> NoTrackable, dates |-> <<>>, values |-> <<>>]
  /\ baseData = <<>>

\* The invocations of loadToday that may be in flight together.
Calls == 1..2

\* An invocation that has not been made.
NoCall ==
  [pc |-> "off", date |-> [valid |-> FALSE, day |-> 0, time |-> 0],
   showController |-> "undefined", logs |-> <<>>, usage |-> <<>>,
   activeContexts |-> <<>>, merged |-> <<>>]

\* initialState of TodayStore; dayjs() is the time the module was loaded.
initialState ==
  [date |-> [valid |-> TRUE, day |-> DaysFromCivil(2024, 2, 10), time |-> 25200000],
   usage |-> <<>>,
   usageHash |-> <<>>,
   showController |-> FALSE]

IdleToday ==
  /\ ledger = <<>>
  /\ known = {}
  /\ calls = [c \in Calls |-> NoCall]
  /\ store = initialState

\* answerQuestion has not been called.
NoAsk ==
  [pc |-> "off",
   message |-> [hasAddKeyword |-> FALSE, hasQuestionKeyword |-> FALSE],
   model |-> "",
   trackerCount |-> 0,
   timer |-> "unset",
   response |-> <<>>,
   body |-> <<>>,
   event |-> "none",
   promise |-> "pending",
   value |-> <<>>]

IdleAsk == ask = NoAsk

\* No configuration dialogue is open.
NoWizard == [config |-> <<>>, hint |-> <<>>, selected |-> <<>>, response |-> <<>>]

IdleWizard == wizard = NoWizard

NoEntry ==
  [pc |-> "off", trackerName |-> <<>>, value |-> <<>>, trackables |-> <<>>,
   tracker |-> <<>>, note |-> <<>>, saved |-> <<>>, response |-> <<>>]

IdleEntry == creation = NoEntry

NoView ==
  [messages |-> <<>>, loading |-> FALSE, pendingValueRequest |-> <<>>,
   ollamaAvailable |-> FALSE, ops |-> {}, timers |-> {}, nextId |-> 1,
   started |-> 0, defaults |-> {}, completed |-> "none"]

IdleView == view = NoView

IdleChat == IdleAsk /\ IdleWizard /\ IdleEntry /\ IdleView

InitPeriods ==
  /\ pc = "ready"
  /\ dates \in SeqsUpTo(DateStrings, MaxDates)
  /\ periods = <<>>
  /\ signal = "none"
  /\ IdleIntervals
  /\ IdleUsage
  /\ IdleToday
  /\ IdleChat

\* The caller passes the same dates in another order.
ShuffleDates ==
  /\ pc = "ready"
  /\ \E i, j \in 1..Len(dates) :
       /\ i < j
       /\ dates' = Swap(dates, i, j)
  /\ UNCHANGED <<pc, periods, signal, intervalVars, usageVars, todayVars, chatVars>>

\* detectPeriods(dates): it copies the array, has no throw statement and
\* dayjs() does not throw, so every call returns.
DetectPeriods ==
  /\ pc = "ready"
  /\ periods' = detectPeriods(dates)
  /\ signal' = "returned"
  /\ pc' = "done"
  /\ UNCHANGED <<dates, intervalVars, usageVars, todayVars, chatVars>>

NextPeriods == ShuffleDates \/ DetectPeriods

SpecPeriods == InitPeriods /\ [][NextPeriods]_vars

(***************************************************************************)
(* Claims about the period detector (checked under SpecPeriods).           *)
(***************************************************************************)
AllValidDates == \A i \in 1..Len(dates) : IsValidDate(dates[i])

\* The day numbers of the input dates.
InputDays == { Dayjs(dates[i]).day : i \in 1..Len(dates) }

\* The maximal runs of consecutive days among the input days, as <<first, last>>.
MaximalRuns ==
  { r \in InputDays \X InputDays :
      /\ r[1] <= r[2]
      /\ \A k \in r[1]..r[2] : k \in InputDays
      /\ (r[1] - 1) \notin InputDays
      /\ (r[2] + 1) \notin InputDays }

\* The gaps: input days whose successor among the input days is more than one
\* day later.
Gaps == { a \in InputDays : (a + 1) \notin InputDays /\ \E b \in InputDays : b > a }

\* C1: detectPeriods is order-independent: every permutation of the list of
\* date strings it was called with gives the same list of periods (same start,
\* end and duration, in the same order).
C1_OrderIndependent ==
  pc = "done" => \A p \in PermutationsOf(dates) : detectPeriods(p) = periods

\* C1 witness: a call on an array that is not in ascending order and that
\* holds two periods.
C1_Witness ==
  /\ pc = "done"
  /\ Len(periods) = 2
  /\ \E i \in 1..(Len(dates) - 1) : StrLess(dates[i + 1], dates[i])

\* C2: for a list of valid calendar dates detectPeriods returns exactly the
\* maximal runs of the distinct input dates: ascending, every input date in
\* exactly one period, start and end are input dates, consecutive periods at
\* least 2 days apart, duration = (end - start) + 1 = the number of distinct
\* input days in the span; the empty list gives the empty list.
C2_MaximalRunsReturned ==
  (pc = "done" /\ AllValidDates) =>
    /\ (dates = <<>> => periods = <<>>)
    /\ Len(periods) = Cardinality(MaximalRuns)
    /\ \A i \in 1..Len(periods) :
         LET a == Dayjs(periods[i].start).day
             b == Dayjs(periods[i].end).day
         IN /\ periods[i].start \in Range(dates)
            /\ periods[i].end \in Range(dates)
            /\ <<a, b>> \in MaximalRuns
            /\ periods[i].duration = Num(b - a + 1)
            /\ periods[i].duration = Num(Cardinality({k \in InputDays : a <= k /\ k <= b}))
            /\ (a = b => periods[i].start = periods[i].end /\ periods[i].duration = Num(1))
    /\ \A i \in 1..(Len(periods) - 1) :
         Dayjs(periods[i + 1].start).day - Dayjs(periods[i].end).day >= 2
    /\ \A j \in 1..Len(dates) :
         Cardinality({ i \in 1..Len(periods) :
                         /\ Dayjs(periods[i].start).day <= Dayjs(dates[j]).day
                         /\ Dayjs(dates[j]).day <= Dayjs(periods[i].end).day }) = 1
    /\ (Cardinality(MaximalRuns) = 1 =>
          /\ Len(periods) = 1
          /\ \A x \in InputDays : /\ Dayjs(periods[1].start).day <= x
                                  /\ x <= Dayjs(periods[1].end).day
          /\ periods[1].duration = Num(Cardinality(InputDays)))

\* C2 witness: the documented scenario, 2024-01-01, 2024-01-02, 2024-01-05.
C2_Witness ==
  /\ pc = "done"
  /\ AllValidDates
  /\ periods = << [start |-> DateStr(2024, 1, 1), end |-> DateStr(2024, 1, 2),
                   duration |-> Num(2)],
                  [start |-> DateStr(2024, 1, 5), end |-> DateStr(2024, 1, 5),
                   duration |-> Num(1)] >>

\* C3: for a non-empty list of valid calendar dates the number of periods is
\* exactly one more than the number of gaps (adjacent dates in sorted order
\* more than 1 day apart).
C3_PeriodsAreGapsPlusOne ==
  (pc = "done" /\ AllValidDates /\ dates # <<>>) =>
    Len(periods) = Cardinality(Gaps) + 1

\* C3 witness: three valid dates with two gaps, the first across the end of
\* February of a leap year.
C3_Witness ==
  /\ pc = "done"
  /\ AllValidDates
  /\ Cardinality(Gaps) = 2
  /\ Len(periods) = 3
  /\ DateStr(2024, 2, 28) \in Range(dates)
  /\ DateStr(2024, 3, 1) \in Range(dates)

\* C10: malformed date strings are rejected: a call whose input holds a
\* string that is not a valid ISO calendar date signals an error, and no
\* returned period has a start, end or duration derived from an invalid date.
C10_MalformedRejected ==
  (pc = "done" /\ ~AllValidDates) =>
    /\ signal = "ParseError"
    /\ \A i \in 1..Len(periods) :
         /\ IsValidDate(periods[i].start)
         /\ IsValidDate(periods[i].end)
         /\ ~periods[i].duration.nan

(***************************************************************************)
(* The interval calculator as a state machine: the caller holds an array   *)
(* of logs, may reorder it, and calls calculateIntervals(logs, trackerTag).*)
(***************************************************************************)
\* Timestamps (log.end, milliseconds after 09:00): 09:00, 09:09:30, 09:20,
\* 10:00 and 10:30.
LogTimes == {0, 570000, 1200000, 3600000, 5400000}

\* A log names one tracker; its meta may or may not have been loaded yet.
LogValues ==
  [end : LogTimes, ids : {{Tag(0, "water")}, {Tag(0, "mood")}}, loaded : BOOLEAN]

\* The tag of the tracker as the usage map keys it ('#water') and bare.
TrackerTags == {Tag(0, "water"), Tag(1, "water")}

InitIntervals ==
  /\ pc = "ready"
  /\ logs \in SeqsUpTo(LogValues, MaxLogs)
  /\ argLogs = <<>>
  /\ trackerTag \in TrackerTags
  /\ result = EmptyResult
  /\ IdlePeriods
  /\ IdleUsage
  /\ IdleToday
  /\ IdleChat

\* The caller passes the same logs in another order.
ShuffleLogs ==
  /\ pc = "ready"
  /\ \E i, j \in 1..Len(logs) :
       /\ i < j
       /\ logs' = Swap(logs, i, j)
  /\ UNCHANGED <<pc, argLogs, trackerTag, result, periodVars, usageVars, todayVars, chatVars>>

\* calculateIntervals(logs, trackerTag)
CalculateIntervals ==
  /\ pc = "ready"
  /\ argLogs' = logs
  /\ result' = calculateIntervals(logs, trackerTag)
  /\ logs' = CallerArrayAfter(logs)
  /\ pc' = "done"
  /\ UNCHANGED <<trackerTag, periodVars, usageVars, todayVars, chatVars>>

NextIntervals == ShuffleLogs \/ CalculateIntervals

SpecIntervals == InitIntervals /\ [][NextIntervals]_vars

(***************************************************************************)
(* Claims about the interval calculator (checked under SpecIntervals).     *)
(***************************************************************************)
\* The positions of the logs of the call that reference the tracker the tag
\* names (the tag without its '#').
Matching == { i \in 1..Len(argLogs) : Tag(0, trackerTag.name) \in argLogs[i].ids }

\* The end of the k-th matching log in ascending timestamp order.
NthEnd(k) ==
  CHOOSE t \in { argLogs[i].end : i \in Matching } :
    /\ Cardinality({ i \in Matching : argLogs[i].end < t }) < k
    /\ k <= Cardinality({ i \in Matching : argLogs[i].end <= t })

\* The whole minutes between the k-th and the (k+1)-th matching log.
Delta(k) == (NthEnd(k + 1) - NthEnd(k)) \div 60000

RECURSIVE SumDeltas(_)
SumDeltas(k) == IF k = 0 THEN 0 ELSE Delta(k) + SumDeltas(k - 1)

\* "1 hour", "2 hours", "0 minutes"
Clause(n, unit) == IF n = 1 THEN "1 " \o unit ELSE ToString(n) \o " " \o unit \o "s"

\* C4: with fewer than 2 logs referencing the tracker tag (an empty log list
\* included) calculateIntervals returns the empty-result sentinel: no
\* intervals, averageMinutes and averageHours 0, averageFormatted
\* "N/A (need at least 2 entries)".
C4_SentinelBelowTwo ==
  (pc = "done" /\ Cardinality(Matching) < 2) =>
    /\ result.intervals = <<>>
    /\ result.averageMinutes.num = 0
    /\ result.averageHours.num = 0
    /\ result.averageFormatted = "N/A (need at least 2 entries)"

\* C4 witness: a call on three logs of which exactly one references the tag.
C4_Witness ==
  /\ pc = "done"
  /\ Len(argLogs) = 3
  /\ Cardinality(Matching) = 1
  /\ result.averageFormatted = "N/A (need at least 2 entries)"

\* C5 as amended: for n >= 2 matching logs there are n-1 intervals, the i-th
\* being the whole-minute difference d of the i-th and (i+1)-th matching log
\* in ascending timestamp order, with hours = d div 60 >= 0, minutes = d mod 60
\* in 0..59, and formatted as only the minutes clause when hours is 0 (also
\* when minutes is 0: "0 minutes"), only the hours clause when hours > 0 and
\* minutes is 0, and both otherwise, each unit plural unless its count is 1.
C5_IntervalsDecomposed ==
  (pc = "done" /\ Cardinality(Matching) >= 2) =>
    /\ Len(result.intervals) = Cardinality(Matching) - 1
    /\ \A k \in 1..Len(result.intervals) :
         LET iv == result.intervals[k]
         IN /\ iv.hours * 60 + iv.minutes = Delta(k)
            /\ iv.hours = Delta(k) \div 60
            /\ iv.hours >= 0
            /\ iv.minutes = Delta(k) % 60
            /\ iv.minutes \in 0..59
            /\ iv.formatted =
                 IF iv.hours = 0 THEN Clause(iv.minutes, "minute")
                 ELSE IF iv.minutes = 0 THEN Clause(iv.hours, "hour")
                 ELSE Clause(iv.hours, "hour") \o " " \o Clause(iv.minutes, "minute")

\* C5 witness: two matching logs 90 minutes apart give the one interval
\* {hours: 1, minutes: 30, formatted: "1 hour 30 minutes"}.
C5_Witness ==
  /\ pc = "done"
  /\ Cardinality(Matching) = 2
  /\ result.intervals =
       << [hours |-> 1, minutes |-> 30, formatted |-> "1 hour 30 minutes"] >>

\* C5 as claimed: as above, but with the minutes clause omitted whenever
\* minutes is 0 and only the minutes clause shown whenever hours is 0.
C5_AsClaimed ==
  (pc = "done" /\ Cardinality(Matching) >= 2) =>
    /\ Len(result.intervals) = Cardinality(Matching) - 1
    /\ \A k \in 1..Len(result.intervals) :
         LET iv == result.intervals[k]
         IN /\ iv.hours * 60 + iv.minutes = Delta(k)
            /\ iv.hours = Delta(k) \div 60
            /\ iv.minutes = Delta(k) % 60
            /\ (iv.minutes = 0 => iv.formatted = Clause(iv.hours, "hour"))
            /\ (iv.hours = 0 /\ iv.minutes # 0 =>
                  iv.formatted = Clause(iv.minutes, "minute"))
            /\ (iv.hours # 0 /\ iv.minutes # 0 =>
                  iv.formatted =
                    Clause(iv.hours, "hour") \o " " \o Clause(iv.minutes, "minute"))

\* C6: for n >= 2 matching logs averageMinutes is the arithmetic mean of the
\* n-1 minute-deltas; averageFormatted is, for a mean under 60 minutes, the
\* mean in hours rounded to one decimal place (half up, as 0.75 -> 0.8)
\* followed by " hours", and otherwise "<H> hour[s] <M> minute[s]" with
\* H = floor(mean / 60), M = round(mean mod 60), the minutes clause omitted
\* when M is 0.
C6_AverageFormatted ==
  (pc = "done" /\ Cardinality(Matching) >= 2) =>
    LET n == Cardinality(Matching) - 1
        total == SumDeltas(n)
        tenths == (2 * total + 6 * n) \div (12 * n)
        H == total \div (60 * n)
        M == (2 * (total % (60 * n)) + n) \div (2 * n)
    IN /\ result.averageMinutes.num * n = total * result.averageMinutes.den
       /\ result.averageFormatted =
            IF total < 60 * n
              THEN ToString(tenths \div 10) \o "." \o ToString(tenths % 10) \o " hours"
            ELSE IF M = 0 THEN Clause(H, "hour")
            ELSE Clause(H, "hour") \o " " \o Clause(M, "minute")

\* C7: tag matching is insensitive to a leading '#': for the tag name t of
\* the call, calculateIntervals(logs, "#" + t) and calculateIntervals(logs, t)
\* select the same logs and return the same result.
C7_HashInsensitive ==
  pc = "done" =>
    LET t == Tag(0, trackerTag.name)
        hashed == Tag(1, trackerTag.name)
    IN /\ FilterLogs(argLogs, hashed) = FilterLogs(argLogs, t)
       /\ calculateIntervals(argLogs, hashed) = calculateIntervals(argLogs, t)
       /\ result = calculateIntervals(argLogs, t)

\* C7 witness: a call with the tag '#water' that found at least two logs.
C7_Witness ==
  /\ pc = "done"
  /\ trackerTag = Tag(1, "water")
  /\ Len(result.intervals) >= 1

\* C8: calculateIntervals does not depend on the order of its input and does
\* not reorder it: every permutation of the logs of the call gives the same
\* intervals and average, and the caller's array holds the same logs at the
\* same positions after the call.
C8_OrderIndependentNoReorder ==
  pc = "done" =>
    /\ \A p \in PermutationsOf(argLogs) : calculateIntervals(p, trackerTag) = result
    /\ Len(logs) = Len(argLogs)
    /\ \A i \in 1..Len(logs) :
         logs[i].end = argLogs[i].end /\ logs[i].ids = argLogs[i].ids

\* C8 witness: a call on three matching logs given in descending order of
\* time.
C8_Witness ==
  /\ pc = "done"
  /\ Len(argLogs) = 3
  /\ Len(result.intervals) = 2
  /\ argLogs[1].end > argLogs[2].end
  /\ argLogs[2].end > argLogs[3].end

(***************************************************************************)
(* The usage enhancement as a state machine: LedgerStore.query has         *)
(* returned the logs, logsToTrackableUsage has produced the entry of one   *)
(* tag from them, and getRelevantData enhances it.                         *)
(***************************************************************************)
\* The first day of the queried window; the timestamps of its logs
\* (log.end) count milliseconds from 00:00 of that day.
WindowStart == DaysFromCivil(2024, 2, 10)

\* The days of the logs: the first day of the window, two days before the
\* end of February of a leap year, and a day after.
UsageDays ==
  { [valid |-> TRUE, day |-> WindowStart],
    [valid |-> TRUE, day |-> DaysFromCivil(2024, 2, 27)],
    [valid |-> TRUE, day |-> DaysFromCivil(2024, 2, 28)],
    [valid |-> TRUE, day |-> DaysFromCivil(2024, 3, 2)] }

\* A value of a log for the tag; NaN is a missing value.
UsageValues == {Num(1), Num(4), NaN}

\* The trackables: a tick tracker, a value tracker, a person, and a context
\* whose duration is absent (0) or 1 .. MaxDuration days.
Trackables ==
  { [type |-> "tracker", trackerType |-> "tick", duration |-> 0, tag |-> Tag(1, "walk")],
    [type |-> "tracker", trackerType |-> "value", duration |-> 0, tag |-> Tag(1, "water")],
    [type |-> "person", trackerType |-> "none", duration |-> 0, tag |-> Tag(0, "@sam")] }
  \cup { [type |-> "context", trackerType |-> "none", duration |-> n,
           tag |-> Tag(0, "+trip")] : n \in 0..MaxDuration }

\* dayjs(log.end): the calendar day of a timestamp.
DayjsOfTime(end) ==
  [valid |-> TRUE, day |-> WindowStart + end \div 86400000, time |-> end % 86400000]

\* A log written at 09:00 of `day` that references the trackable with a value.
LogOf(trackable, day, value) ==
  [end |-> (day.day - WindowStart) * 86400000 + 32400000,
   ids |-> IF trackable.type = "tracker" THEN {NormalizeTag(trackable.tag)} ELSE {},
   refs |-> IF trackable.type = "tracker" THEN {} ELSE {trackable.tag},
   value |-> value,
   loaded |-> FALSE]

\* A log of another tracker, written at 08:00 of the first day.
OtherLog ==
  [end |-> 28800000,
   ids |-> {Tag(0, "mood")}, refs |-> {}, value |-> Num(2), loaded |-> FALSE]

\* The log references the trackable (a tracker by its id, a context or a
\* person by its tag).
References(log, trackable) ==
  IF trackable.type = "tracker"
    THEN NormalizeTag(trackable.tag) \in log.ids
    ELSE trackable.tag \in log.refs

\* logsToTrackableUsage(logs, {trackables})[tag]: the values and the dates
\* of the matching log entries, in the order of the logs.
RECURSIVE logsToTrackableUsage(_, _)
logsToTrackableUsage(ls, trackable) ==
  IF ls = <<>> THEN [trackable |-> trackable, dates |-> <<>>, values |-> <<>>]
  ELSE LET rest == logsToTrackableUsage(Tail(ls), trackable)
       IN IF References(Head(ls), trackable)
            THEN [rest EXCEPT !.dates = <<DayjsOfTime(Head(ls).end)>> \o @,
                              !.values = <<Head(ls).value>> \o @]
            ELSE rest

InitUsage ==
  /\ pc = "ready"
  /\ \E k \in 1..MaxUsage :
       \E ds \in [1..k -> UsageDays], vs \in [1..k -> UsageValues], t \in Trackables :
         /\ logs = <<OtherLog>> \o [i \in 1..k |-> LogOf(t, ds[i], vs[i])]
         /\ usage = logsToTrackableUsage(logs, t)
  /\ baseData = <<>>
  /\ argLogs = <<>>
  /\ trackerTag = Tag(0, "")
  /\ result = EmptyResult
  /\ IdlePeriods
  /\ IdleToday
  /\ IdleChat

\* One step of the reduce in getRelevantData: acc[tag] = baseData.
EnhanceUsage ==
  /\ pc = "ready"
  /\ baseData' = <<EnhancedUsage(usage, logs)>>
  /\ logs' = LogsAfterEnhance(usage, logs)
  /\ argLogs' = logs
  /\ pc' = "done"
  /\ UNCHANGED <<usage, trackerTag, result, periodVars, todayVars, chatVars>>

NextUsage == EnhanceUsage

SpecUsage == InitUsage /\ [][NextUsage]_vars

(***************************************************************************)
(* Claims about the usage enhancement (checked under SpecUsage).           *)
(***************************************************************************)
\* The day numbers logged for the entry.
LoggedDays == { usage.dates[i].day : i \in 1..Len(usage.dates) }

\* The days covered by a context of duration n logged on LoggedDays.
CoveredDays(n) == UNION { d..(d + n - 1) : d \in LoggedDays }

\* C9: for a context with duration n > 1 the expanded dates are exactly the
\* deduplicated, ascending union over the logged dates d of d .. d+n-1; a
\* context logged once on day D with duration 3 gives D, D+1, D+2 and the
\* single period {start: D, end: D+2, duration: 3}; for any other trackable
\* the expanded dates equal the original log dates.
C9_DurationExpansion ==
  pc = "done" =>
    LET b == baseData[1]
        t == usage.trackable
    IN /\ Len(b.dates) = Len(usage.dates)
       /\ \A i \in 1..Len(b.dates) :
            IsValidDate(b.dates[i]) /\ Dayjs(b.dates[i]).day = usage.dates[i].day
       /\ (t.type = "context" /\ t.duration > 1) =>
            /\ \A i \in 1..Len(b.expandedDates) : IsValidDate(b.expandedDates[i])
            /\ { Dayjs(b.expandedDates[i]).day : i \in 1..Len(b.expandedDates) }
                 = CoveredDays(t.duration)
            /\ \A i \in 1..(Len(b.expandedDates) - 1) :
                 /\ StrLess(b.expandedDates[i], b.expandedDates[i + 1])
                 /\ Dayjs(b.expandedDates[i]).day < Dayjs(b.expandedDates[i + 1]).day
            /\ (Cardinality(LoggedDays) = 1 /\ t.duration = 3) =>
                 /\ Len(b.expandedDates) = 3
                 /\ b.periods =
                      << << [start |-> b.dates[1],
                             end |-> b.expandedDates[3],
                             duration |-> Num(3)] >> >>
                 /\ Dayjs(b.expandedDates[3]).day = Dayjs(b.dates[1]).day + 2
       /\ ~(t.type = "context" /\ t.duration > 1) => b.expandedDates = b.dates

\* C9 witness: a context of duration 3 logged once, on 2024-02-28: the
\* expanded dates are 2024-02-28, 2024-02-29, 2024-03-01, one period of 3 days.
C9_Witness ==
  /\ pc = "done"
  /\ usage.trackable.type = "context"
  /\ usage.trackable.duration = 3
  /\ baseData[1].dates = <<DateStr(2024, 2, 28)>>
  /\ baseData[1].expandedDates =
       <<DateStr(2024, 2, 28), DateStr(2024, 2, 29), DateStr(2024, 3, 1)>>
  /\ baseData[1].periods =
       << << [start |-> DateStr(2024, 2, 28), end |-> DateStr(2024, 3, 1),
              duration |-> Num(3)] >> >>

\* The positions of usage.values that hold a number.
Counted == { i \in 1..Len(usage.values) : ~usage.values[i].nan }

RECURSIVE SumCounted(_)
SumCounted(I) ==
  IF I = {} THEN 0
  ELSE LET i == CHOOSE j \in I : TRUE
       IN usage.values[i].v + SumCounted(I \ {i})

\* C11: count is the number of values that are not NaN and average is the
\* arithmetic mean of exactly those values, or 0 when there are none: a NaN
\* value is left out of both and is never counted as a zero.
C11_CountAndAverage ==
  pc = "done" =>
    LET b == baseData[1]
    IN /\ b.values = usage.values
       /\ b.count = Cardinality(Counted)
       /\ b.average.den > 0
       /\ IF Counted = {}
            THEN b.average.num = 0
            ELSE b.average.num * Cardinality(Counted) = SumCounted(Counted) * b.average.den

\* C11 witness: the values 1, NaN, 4 give count 2 and average 5/2.
C11_Witness ==
  /\ pc = "done"
  /\ usage.values = <<Num(1), NaN, Num(4)>>
  /\ baseData[1].count = 2
  /\ baseData[1].average = Rat(5, 2)

\* The logs of the query that reference the tracker of the entry.
ReferencingLogs ==
  { i \in 1..Len(argLogs) : Tag(0, usage.trackable.tag.name) \in argLogs[i].ids }

\* C12: intervals and averageInterval are present only if the trackable is a
\* tracker with at least 2 log entries referencing it, and whenever they are
\* present intervals is non-empty and averageInterval is not the
\* "N/A (need at least 2 entries)" sentinel.
C12_IntervalsOnlyWithTwoEntries ==
  pc = "done" =>
    LET b == baseData[1]
    IN /\ Len(b.intervals) = Len(b.averageInterval)
       /\ Len(b.intervals) = 1 =>
            /\ usage.trackable.type = "tracker"
            /\ Cardinality(ReferencingLogs) >= 2
            /\ Len(b.intervals[1]) >= 1
            /\ b.averageInterval[1] # "N/A (need at least 2 entries)"

\* C12 witness: a tracker logged three times with numbers has two intervals
\* and a formatted average; the log of the other tracker is not counted.
C12_Witness ==
  /\ pc = "done"
  /\ usage.trackable.type = "tracker"
  /\ Len(argLogs) = 4
  /\ Cardinality(ReferencingLogs) = 3
  /\ Len(baseData[1].intervals) = 1
  /\ Len(baseData[1].intervals[1]) = 2
  /\ baseData[1].averageInterval[1] # "N/A (need at least 2 entries)"

\* C13: periods, periodCount, lastPeriod and longestPeriod are present only
\* if the trackable is a context (any duration) or a tracker of type tick;
\* for every other tracker type they are absent; and when they are present
\* periodCount equals the length of periods.
C13_PeriodFieldsOnlyForContextOrTick ==
  pc = "done" =>
    LET b == baseData[1]
        t == usage.trackable
        periodish == t.type = "context" \/ (t.type = "tracker" /\ t.trackerType = "tick")
    IN /\ (Len(b.periods) = 1 \/ Len(b.periodCount) = 1
             \/ Len(b.lastPeriod) = 1 \/ Len(b.longestPeriod) = 1) => periodish
       /\ (t.type = "tracker" /\ t.trackerType # "tick") =>
            /\ b.periods = <<>> /\ b.periodCount = <<>>
            /\ b.lastPeriod = <<>> /\ b.longestPeriod = <<>>
       /\ Len(b.periods) = Len(b.periodCount)
       /\ Len(b.periods) = 1 => b.periodCount[1] = Len(b.periods[1])

\* C13 witness: a tick tracker logged on two days that are apart has the
\* four fields, with periodCount 2.
C13_Witness ==
  /\ pc = "done"
  /\ usage.trackable.type = "tracker"
  /\ usage.trackable.trackerType = "tick"
  /\ baseData[1].periodCount = <<2>>
  /\ Len(baseData[1].periods[1]) = 2
  /\ Len(baseData[1].lastPeriod) = 1
  /\ Len(baseData[1].longestPeriod) = 1

\* C14: whenever periods is non-empty, lastPeriod is the period with the
\* latest end date, which is the last element of periods, and longestPeriod
\* is a period of maximal duration, the first such period in list order.
C14_LastAndLongestPeriod ==
  (pc = "done" /\ Len(baseData[1].periods) = 1 /\ Len(baseData[1].periods[1]) > 0) =>
    LET b == baseData[1]
        ps == b.periods[1]
        first == CHOOSE k \in 1..Len(ps) :
                   /\ \A j \in 1..Len(ps) : ps[j].duration.v <= ps[k].duration.v
                   /\ \A j \in 1..(k - 1) : ps[j].duration.v < ps[k].duration.v
    IN /\ b.lastPeriod = <<ps[Len(ps)]>>
       /\ \A j \in 1..Len(ps) :
            Dayjs(ps[j].end).day <= Dayjs(b.lastPeriod[1].end).day
       /\ \A j \in 1..(Len(ps) - 1) :
            Dayjs(ps[j].end).day < Dayjs(b.lastPeriod[1].end).day
       /\ b.longestPeriod = <<ps[first]>>

\* C14 witness: three periods of 1, 1 and 1 days or two of equal length:
\* the longest is the first of them and the last is another one.
C14_Witness ==
  /\ pc = "done"
  /\ Len(baseData[1].periods) = 1
  /\ Len(baseData[1].periods[1]) >= 2
  /\ \A j \in 1..Len(baseData[1].periods[1]) :
       baseData[1].periods[1][j].duration = baseData[1].periods[1][1].duration
  /\ baseData[1].longestPeriod = <<baseData[1].periods[1][1]>>
  /\ baseData[1].lastPeriod[1] # baseData[1].longestPeriod[1]

(***************************************************************************)
(* loadToday (usage/today store).  A dayjs value here also carries its     *)
(* time of day: [valid, day, time], time in milliseconds after 00:00.      *)
(***************************************************************************)
\* x.startOf('day')
StartOfDay(x) == [x EXCEPT !.time = 0]

\* x.add(n, 'day')
AddDay(x, n) == [x EXCEPT !.day = @ + n]

\* a.valueOf() - b.valueOf(), in milliseconds
MsBetween(a, b) == (a.day - b.day) * 86400000 + (a.time - b.time)

\* a >= b on two dayjs values (compared by valueOf())
AtOrAfter(a, b) == MsBetween(a, b) >= 0

\* a.isAfter(b)
IsAfter(a, b) == MsBetween(a, b) > 0

\* a.diff(b, 'day')
DiffDays(a, b) == TruncDiv(MsBetween(a, b), 86400000)

\* trackable.ctx?.duration || 1
DurationOf(trackable) == IF trackable.duration # 0 THEN trackable.duration ELSE 1

\* The entry of one trackable as logsToTrackableUsage builds it: a
\* TrackableUsage with the values, dates and logs of the matching entries.
TrackableUsageOf(ls, trackable) ==
  LET u == logsToTrackableUsage(ls, trackable)
  IN [trackable |-> trackable,
      values |-> u.values,
      hours |-> [i \in 1..Len(u.dates) |-> u.dates[i].time \div 3600000],
      dates |-> u.dates,
      logs |-> SelectSeq(ls, LAMBDA l : References(l, trackable)),
      positivity |-> <<>>,
      displayValue |-> <<>>]

\* logsToTrackableUsage(logs, {trackables}): the map from the tag of every
\* trackable the logs reference to its entry.
UsageMapOf(ls, trackables) ==
  LET present == { t \in trackables : \E i \in 1..Len(ls) : References(ls[i], t) }
  IN [tag \in { t.tag : t \in present } |->
        TrackableUsageOf(ls, CHOOSE t \in present : t.tag = tag)]

\* LedgerStore.query({start: date.startOf('day'), end: date.endOf('day')})
QueryDay(ldg, date) ==
  SelectSeq(ldg, LAMBDA l : DayjsOfTime(l.end).day = date.day)

\* Mutation: every context that was ever logged is returned.
getContextOn_anyLogged(ldg, date, trackables) ==
  UsageMapOf(ldg, { t \in trackables : t.type = "context" })

\* getContextOn(date, trackables): the contexts that are active on the
\* date, each with the entry built from all its logs.
getContextOn(ldg, date, trackables) ==
  LET active ==
        { t \in trackables :
            /\ t.type = "context"
            /\ \E i \in 1..Len(ldg) :
                 /\ References(ldg[i], t)
                 /\ DayjsOfTime(ldg[i].end).day <= date.day
                 /\ date.day <= DayjsOfTime(ldg[i].end).day + DurationOf(t) - 1 }
  IN UsageMapOf(ldg, active)

\* The dates of a context that are still active on `date`:
\* checkDate >= contextStart && checkDate <= contextEnd
ActiveDates(ds, duration, date) ==
  SelectSeq(ds, LAMBDA loopDate :
    LET contextStart == StartOfDay(loopDate)
        contextEnd == AddDay(contextStart, duration - 1)
        checkDate == StartOfDay(date)
    IN AtOrAfter(checkDate, contextStart) /\ AtOrAfter(contextEnd, checkDate))

\* activeDates.reduce((latest, current) => current.isAfter(latest) ? current : latest)
RECURSIVE MostRecentFrom(_, _)
MostRecentFrom(ds, latest) ==
  IF ds = <<>> THEN latest
  ELSE MostRecentFrom(Tail(ds), IF IsAfter(Head(ds), latest) THEN Head(ds) ELSE latest)

\* Mutation: today is not counted.
RemainingDays_exclusive(mostRecentDate, duration, date) ==
  DiffDays(AddDay(StartOfDay(mostRecentDate), duration - 1), StartOfDay(date))

\* contextEnd.diff(today, 'day') + 1
RemainingDays(mostRecentDate, duration, date) ==
  DiffDays(AddDay(StartOfDay(mostRecentDate), duration - 1), StartOfDay(date)) + 1

\* remainingDays === 1 ? '1 day left' : `${remainingDays} days left`
DaysLeft(remainingDays) ==
  IF remainingDays = 1 THEN "1 day left" ELSE ToString(remainingDays) \o " days left"

\* The display value of an injected context (lines 59-89).
InjectedDisplayValue(contextUsage, duration, date) ==
  LET activeDates ==
        IF Len(contextUsage.dates) > 0
          THEN ActiveDates(contextUsage.dates, duration, date) ELSE <<>>
  IN IF Len(activeDates) > 0 /\ duration > 1
       THEN LET mostRecentDate == MostRecentFrom(Tail(activeDates), Head(activeDates))
                remainingDays == RemainingDays(mostRecentDate, duration, date)
            IN IF remainingDays > 0 THEN DaysLeft(remainingDays) ELSE "1"
       ELSE "1"

\* new TrackableUsage({...}) for an active context that has no entry yet.
InjectedEntry(contextUsage, date) ==
  [trackable |-> contextUsage.trackable,
   values |-> <<Num(1)>>,
   hours |-> <<>>,
   dates |-> <<date>>,
   logs |-> contextUsage.logs,
   positivity |-> <<>>,
   displayValue |->
     <<InjectedDisplayValue(contextUsage, DurationOf(contextUsage.trackable), date)>>]

\* Mutation: the entry of the day is replaced by the synthetic one.
UpdatedEntry_overwrite(entry, contextUsage, date) == InjectedEntry(contextUsage, date)

\* The entry a tag already has, after the else-branch (lines 102-137).
UpdatedEntry(entry, contextUsage, date) ==
  IF entry.trackable.type = "context"
    THEN LET duration == DurationOf(entry.trackable)
             datesToCheck ==
               IF Len(contextUsage.dates) > 0 THEN contextUsage.dates ELSE entry.dates
             activeDates == ActiveDates(datesToCheck, duration, date)
         IN IF duration > 1 /\ Len(datesToCheck) > 0 /\ Len(activeDates) > 0
              THEN LET mostRecentDate == MostRecentFrom(Tail(activeDates), Head(activeDates))
                       remainingDays == RemainingDays(mostRecentDate, duration, date)
                   IN IF remainingDays > 0
                        THEN [entry EXCEPT !.displayValue = <<DaysLeft(remainingDays)>>]
                        ELSE entry
              ELSE entry
    ELSE entry

\* Object.keys(activeContexts).forEach(...) on the usage map of the day.
MergeActiveContexts(usageMap, activeContexts, date) ==
  [tag \in (DOMAIN usageMap) \cup (DOMAIN activeContexts) |->
     IF tag \notin DOMAIN usageMap
       THEN InjectedEntry(activeContexts[tag], date)
     ELSE IF tag \in DOMAIN activeContexts
       THEN UpdatedEntry(usageMap[tag], activeContexts[tag], date)
     ELSE usageMap[tag]]

\* objectHash(usage): a digest that tells two usage maps apart.
objectHash(usageMap) == <<usageMap>>

\* Mutation: the date of the store is left as it was.
StoreUpdate_keepDate(s, date, usageMap, showController) ==
  [s EXCEPT !.usage = usageMap, !.usageHash = objectHash(usageMap)]

\* TodayStore.update((s) => {...}) at the end of loadToday.
StoreUpdate(s, date, usageMap, showController) ==
  [date |-> date,
   usage |-> usageMap,
   usageHash |-> objectHash(usageMap),
   showController |-> IF showController = "false" THEN FALSE ELSE s.showController]

(***************************************************************************)
(* loadToday as a state machine.  An invocation runs to its first await    *)
(* (the query of the day's logs), resumes when the logs arrive and calls   *)
(* getContextOn, and resumes again when the active contexts arrive: it     *)
(* merges them into its usage map and updates TodayStore.  JavaScript runs *)
(* each of these pieces without interruption.                              *)
(***************************************************************************)
\* The days on which logs were written, and the dates loadToday is asked for
\* (at 15:00).
TodayDays == { [valid |-> TRUE, day |-> WindowStart + k] : k \in 0..2 }

AsOfDates ==
  { [valid |-> TRUE, day |-> WindowStart + k, time |-> 54000000] : k \in 0..3 }

\* The known trackables: a context whose duration is absent (0) or
\* 1 .. MaxDuration days, and a tick tracker.
TodayContext(n) ==
  [type |-> "context", trackerType |-> "none", duration |-> n, tag |-> Tag(0, "+trip")]

WalkTracker ==
  [type |-> "tracker", trackerType |-> "tick", duration |-> 0, tag |-> Tag(1, "walk")]

\* The logs the ledger may hold: the context or the tracker, at 09:00.
LedgerLogs ==
  { LogOf(t, d, Num(1)) : t \in {TodayContext(0), WalkTracker}, d \in TodayDays }

\* loadToday({date, knownTrackables, showController}) not yet started.
NewCall(date, showController) ==
  [NoCall EXCEPT !.pc = "start", !.date = date, !.showController = showController]

\* One invocation, for any stored logs and any date.
InitToday ==
  /\ pc = "ready"
  /\ ledger \in SeqsUpTo(LedgerLogs, MaxLedger)
  /\ \E n \in 0..MaxDuration : known = {TodayContext(n), WalkTracker}
  /\ \E d \in AsOfDates :
       calls = [c \in Calls |-> IF c = 1 THEN NewCall(d, "false") ELSE NoCall]
  /\ store = initialState
  /\ IdlePeriods
  /\ IdleIntervals
  /\ IdleUsage
  /\ IdleChat

\* Two invocations, for dates D1 and D2.
InitTodayRace ==
  /\ pc = "ready"
  /\ ledger \in SeqsUpTo(LedgerLogs, MaxRaceLogs)
  /\ \E n \in {0, MaxDuration} : known = {TodayContext(n), WalkTracker}
  /\ \E d1, d2 \in AsOfDates :
       calls = [c \in Calls |-> IF c = 1 THEN NewCall(d1, "false")
                                         ELSE NewCall(d2, "undefined")]
  /\ store = initialState
  /\ IdlePeriods
  /\ IdleIntervals
  /\ IdleUsage
  /\ IdleChat

\* loadToday(props) up to `await LedgerStore.query(...)`.
LoadToday(c) ==
  /\ calls[c].pc = "start"
  /\ calls' = [calls EXCEPT ![c].pc = "query"]
  /\ UNCHANGED <<pc, ledger, known, store, periodVars, intervalVars, usageVars, chatVars>>

\* The query resolves: usage = logsToTrackableUsage(logs, ...), then up to
\* `await getContextOn(...)`.
QueryResolved(c) ==
  /\ calls[c].pc = "query"
  /\ LET dayLogs == QueryDay(ledger, calls[c].date)
     IN calls' = [calls EXCEPT ![c].pc = "contexts",
                               ![c].logs = dayLogs,
                               ![c].usage = UsageMapOf(dayLogs, known)]
  /\ UNCHANGED <<pc, ledger, known, store, periodVars, intervalVars, usageVars, chatVars>>

\* getContextOn resolves: the merge of the active contexts and the update
\* of TodayStore.
ContextsResolved(c) ==
  /\ calls[c].pc = "contexts"
  /\ LET activeContexts == getContextOn(ledger, calls[c].date, known)
         merged == MergeActiveContexts(calls[c].usage, activeContexts, calls[c].date)
     IN /\ calls' = [calls EXCEPT ![c].pc = "done",
                                  ![c].activeContexts = activeContexts,
                                  ![c].merged = merged]
        /\ store' = StoreUpdate(store, calls[c].date, merged, calls[c].showController)
  /\ UNCHANGED <<pc, ledger, known, periodVars, intervalVars, usageVars, chatVars>>

\* goBackInTime()
GoBackInTime ==
  /\ store' = [store EXCEPT !.showController = TRUE]
  /\ UNCHANGED <<pc, ledger, known, calls, periodVars, intervalVars, usageVars, chatVars>>

\* saveLog(log): the user logs the context while invocations are in flight.
SaveLog ==
  /\ Len(ledger) <= MaxRaceLogs
  /\ \E c \in Calls : calls[c].pc \in {"query", "contexts"}
  /\ \E d \in TodayDays : ledger' = Append(ledger, LogOf(TodayContext(0), d, Num(1)))
  /\ UNCHANGED <<pc, known, calls, store, periodVars, intervalVars, usageVars, chatVars>>

NextToday ==
  \/ \E c \in Calls : LoadToday(c)
  \/ \E c \in Calls : QueryResolved(c)
  \/ \E c \in Calls : ContextsResolved(c)
  \/ GoBackInTime

SpecToday == InitToday /\ [][NextToday]_vars

NextTodayRace ==
  \/ \E c \in Calls : LoadToday(c)
  \/ \E c \in Calls : QueryResolved(c)
  \/ \E c \in Calls : ContextsResolved(c)
  \/ SaveLog

SpecTodayRace == InitTodayRace /\ [][NextTodayRace]_vars

(***************************************************************************)
(* Claims about loadToday (C15-C17 under SpecToday, C18 under              *)
(* SpecTodayRace).                                                         *)
(***************************************************************************)
\* The context among the known trackables, and the date invocation 1 asks for.
TheContext == CHOOSE t \in known : t.type = "context"

AsOf == calls[1].date.day

\* The days d on which the context was logged with d <= asOf <= d + n - 1,
\* n being its duration (1 when absent).
QualifyingDays ==
  { d \in { WindowStart + ledger[i].end \div 86400000 :
              i \in { j \in 1..Len(ledger) : TheContext.tag \in ledger[j].refs } } :
      d <= AsOf /\ AsOf <= d + (IF TheContext.duration = 0 THEN 1 ELSE TheContext.duration) - 1 }

MostRecentQualifying == CHOOSE d \in QualifyingDays : \A e \in QualifyingDays : e <= d

\* C15: for a context with duration n > 1 that has a logged date d with
\* d <= asOf <= d+n-1, the display value comes from the most recent such d
\* as remaining = (d + n - 1) - asOf + 1, which lies in 1..n, shown as
\* "1 day left" when it is 1 and "<remaining> days left" otherwise, both when
\* the context is injected and when it already has an entry for the day.
C15_RemainingDaysShown ==
  (calls[1].pc = "done" /\ TheContext.duration > 1 /\ QualifyingDays # {}) =>
    LET n == TheContext.duration
        remaining == (MostRecentQualifying + n - 1) - AsOf + 1
        tag == TheContext.tag
    IN /\ remaining \in 1..n
       /\ tag \in DOMAIN store.usage
       /\ store.usage[tag].displayValue =
            << IF remaining = 1 THEN "1 day left"
               ELSE ToString(remaining) \o " days left" >>

\* C15 witness: a context of 3 days logged on two days running and shown on
\* the day after: the later log counts, "2 days left", in an injected entry.
C15_Witness ==
  /\ calls[1].pc = "done"
  /\ TheContext.duration = 3
  /\ QualifyingDays = {WindowStart, WindowStart + 1}
  /\ AsOf = WindowStart + 2
  /\ TheContext.tag \notin DOMAIN calls[1].usage
  /\ store.usage[TheContext.tag].displayValue = <<"2 days left">>

\* C16: a context is added to the usage map as a synthetic active entry
\* (values [1], dates [asOf]) only if some logged date d of it satisfies
\* d <= asOf <= d + duration - 1; a context without such a date is omitted
\* from the usage map.
C16_InjectedOnlyWhenActive ==
  calls[1].pc = "done" =>
    LET tag == TheContext.tag
        injected == tag \in DOMAIN store.usage /\ tag \notin DOMAIN calls[1].usage
    IN /\ injected =>
            /\ QualifyingDays # {}
            /\ store.usage[tag].values = <<Num(1)>>
            /\ store.usage[tag].dates = <<calls[1].date>>
       /\ QualifyingDays = {} => tag \notin DOMAIN store.usage

\* C16 witness: a context logged two days before, with a duration of 3 days,
\* is injected; it has no log on the day itself.
C16_Witness ==
  /\ calls[1].pc = "done"
  /\ TheContext.duration = 3
  /\ QualifyingDays = {AsOf - 2}
  /\ TheContext.tag \notin DOMAIN calls[1].usage
  /\ store.usage[TheContext.tag].values = <<Num(1)>>
  /\ store.usage[TheContext.tag].dates = <<calls[1].date>>
  /\ store.usage[TheContext.tag].displayValue = <<"1 day left">>

\* C17: for every tag already in the usage map of the day's logs, the merge
\* leaves trackable, values, dates, hours and logs unchanged and changes at
\* most displayValue; an entry whose trackable is not a context is left
\* entirely unchanged.
C17_MergeKeepsExistingEntries ==
  calls[1].pc = "done" =>
    \A tag \in DOMAIN calls[1].usage :
      LET before == calls[1].usage[tag]
          after == store.usage[tag]
      IN /\ tag \in DOMAIN store.usage
         /\ after.trackable = before.trackable
         /\ after.values = before.values
         /\ after.dates = before.dates
         /\ after.hours = before.hours
         /\ after.logs = before.logs
         /\ after.positivity = before.positivity
         /\ before.trackable.type # "context" => after = before

\* C17 witness: the context (3 days) and the tracker were both logged on the
\* day; the entry of the context gets "3 days left" and keeps its log, the
\* entry of the tracker is as it was.
C17_Witness ==
  /\ calls[1].pc = "done"
  /\ TheContext.duration = 3
  /\ DOMAIN calls[1].usage = {TheContext.tag, WalkTracker.tag}
  /\ calls[1].usage[TheContext.tag].displayValue = <<>>
  /\ store.usage[TheContext.tag].displayValue = <<"3 days left">>
  /\ Len(store.usage[TheContext.tag].logs) = 1
  /\ store.usage[WalkTracker.tag] = calls[1].usage[WalkTracker.tag]

\* C18: in every interleaving of two overlapping invocations for D1 and D2
\* the usage map an invocation writes is computed from its own log snapshot
\* only, and TodayStore never holds a mixed state: its date, usage and
\* usageHash all belong to one and the same invocation.
C18_StoreNeverMixed ==
  /\ \A c \in Calls :
       /\ \A i \in 1..Len(calls[c].logs) :
            WindowStart + calls[c].logs[i].end \div 86400000 = calls[c].date.day
       /\ calls[c].pc = "done" =>
            /\ \A tag \in DOMAIN calls[c].usage :
                 /\ tag \in DOMAIN calls[c].merged
                 /\ calls[c].merged[tag].logs =
                      SelectSeq(calls[c].logs, LAMBDA l : References(l, calls[c].usage[tag].trackable))
            /\ \A tag \in DOMAIN calls[c].merged :
                 \A i \in 1..Len(calls[c].merged[tag].dates) :
                   calls[c].merged[tag].dates[i].day = calls[c].date.day
  /\ \/ /\ store.date = initialState.date
        /\ store.usage = initialState.usage
        /\ store.usageHash = initialState.usageHash
        /\ \A c \in Calls : calls[c].pc # "done"
     \/ \E c \in Calls :
          /\ calls[c].pc = "done"
          /\ store.date = calls[c].date
          /\ store.usage = calls[c].merged
          /\ store.usageHash = <<calls[c].merged>>

\* C18 witness: both invocations have finished, for different dates and with
\* different usage maps, and the store holds the date and the usage of the
\* first, which finished last.
C18_Witness ==
  /\ calls[1].pc = "done"
  /\ calls[2].pc = "done"
  /\ calls[1].date # calls[2].date
  /\ calls[1].merged # calls[2].merged
  /\ DOMAIN calls[1].merged # {}
  /\ store.date = calls[1].date
  /\ store.usage = calls[1].merged

(***************************************************************************)
(* answerQuestion and queryOllama.  A thrown value is [kind, name,         *)
(* message]: an Error object with its name and message, a string, or       *)
(* null/undefined (kind "nullish").                                         *)
(***************************************************************************)
DefaultTimeoutMs == 60000

Err(name, message) == [kind |-> "Error", name |-> name, message |-> message]

ThrownString == [kind |-> "string", name |-> "", message |-> ""]

ThrownNullish == [kind |-> "nullish", name |-> "", message |-> ""]

\* detectIntent(message, trackers).type
DetectIntentType(message) ==
  IF message.hasQuestionKeyword /\ ~message.hasAddKeyword THEN "question"
  ELSE IF message.hasAddKeyword THEN "add_entry"
  ELSE "question"

\* new Error(`Request timed out after ${timeoutMs / 1000} seconds. ...`)
TimedOutError(timeoutMs) ==
  Err("Error", "Request timed out after " \o ToString(timeoutMs \div 1000)
               \o " seconds. The model may be too slow or the prompt too complex.")

\* new Error(`Ollama API error (${response.status}): ${errorText || response.statusText}`)
OllamaApiError(response, errorText) ==
  Err("Error", "Ollama API error (" \o ToString(response.status) \o "): "
               \o (IF errorText # "" THEN errorText ELSE response.statusText))

NoResponseError ==
  Err("Error", "No response from Ollama. The model may not be loaded or there was an error.")

\* The catch clause of queryOllama: the value it throws on.  Reading
\* error.name of null or undefined is a TypeError.
QueryOllamaCatch(error, timeoutMs) ==
  IF error.kind = "nullish"
    THEN Err("TypeError", "Cannot read properties of undefined (reading 'name')")
  ELSE IF error.kind = "Error" /\ error.name = "AbortError" THEN TimedOutError(timeoutMs)
  ELSE error

\* Mutation: the message of the error is passed on as it is.
AnswerCatch_noFallback(error) ==
  IF error.kind = "nullish" THEN [promise |-> "rejected", value |-> <<>>]
  ELSE [promise |-> "resolved",
        value |-> <<[answer |-> "", error |-> <<error.message>>, data |-> <<>>]>>]

\* The catch clause of answerQuestion:
\* return {answer: '', error: error.message || 'Failed to query AI'}.
\* Reading error.message of null or undefined throws inside the clause.
AnswerCatch(error) ==
  IF error.kind = "nullish" THEN [promise |-> "rejected", value |-> <<>>]
  ELSE [promise |-> "resolved",
        value |-> <<[answer |-> "",
                     error |-> <<IF error.kind = "Error" /\ error.message # ""
                                   THEN error.message ELSE "Failed to query AI">>,
                     data |-> <<>>]>>]

\* return {answer, data: {parsed, trackerCount, logCount}}
AnswerReturn(answer, trackerCount) ==
  [promise |-> "resolved",
   value |-> <<[answer |-> answer, error |-> <<>>,
                data |-> <<[trackerCount |-> trackerCount]>>]>>]

\* The invocation once its promise has settled.
Settled(a, event, outcome) ==
  [a EXCEPT !.pc = "settled", !.event = event,
            !.promise = outcome.promise, !.value = outcome.value]

(***************************************************************************)
(* answerQuestion as a state machine: the awaits of getRelevantData, of    *)
(* fetch and of the body are the points where the storage, the network     *)
(* and the timeout timer decide how it goes on.                            *)
(***************************************************************************)
\* The messages: with or without a keyword of each kind.
Messages == [hasAddKeyword : BOOLEAN, hasQuestionKeyword : BOOLEAN]

Models == {"llama3.2", "mistral"}

\* data.trackers.length
TrackerCounts == 0..2

\* What the storage query may throw.
StorageErrors == {Err("Error", "Database unavailable"), Err("Error", ""), ThrownString}

\* What fetch and the reading of the body may reject with, the abort aside.
NetworkErrors == {Err("TypeError", "Failed to fetch"), Err("TypeError", "")}

\* The HTTP responses.
Responses ==
  { [ok |-> TRUE, status |-> 200, statusText |-> "OK"],
    [ok |-> FALSE, status |-> 404, statusText |-> "Not Found"],
    [ok |-> FALSE, status |-> 500, statusText |-> ""] }

ErrorTexts == {"", "model not found"}

\* data.response of the JSON body: missing, empty or a text.
OllamaResponses == {<<>>, <<"">>, <<"About every two hours.">>}

InitAsk ==
  /\ pc = "ready"
  /\ \E m \in Messages, model \in Models :
       ask = [NoAsk EXCEPT !.pc = "start", !.message = m, !.model = model]
  /\ IdleWizard
  /\ IdleEntry
  /\ IdleView
  /\ IdlePeriods
  /\ IdleIntervals
  /\ IdleUsage
  /\ IdleToday

\* answerQuestion(question, model) up to `await getRelevantData(question)`.
AnswerQuestion ==
  /\ ask.pc = "start"
  /\ ask' = [ask EXCEPT !.pc = "data"]
  /\ UNCHANGED <<pc, wizard, creation, view, periodVars, intervalVars, usageVars, todayVars>>

\* getRelevantData resolves: an entry creation is handed to
\* handleEntryCreation, a question goes on to queryOllama, which arms the
\* timer and awaits fetch.
DataResolved ==
  /\ ask.pc = "data"
  /\ \E n \in TrackerCounts :
       ask' = IF DetectIntentType(ask.message) = "add_entry"
                THEN [ask EXCEPT !.pc = "entry", !.trackerCount = n, !.event = "entry"]
                ELSE [ask EXCEPT !.pc = "fetch", !.trackerCount = n, !.timer = "armed"]
  /\ UNCHANGED <<pc, wizard, creation, view, periodVars, intervalVars, usageVars, todayVars>>

\* getRelevantData rejects (the storage query failed).
DataRejected ==
  /\ ask.pc = "data"
  /\ \E e \in StorageErrors : ask' = Settled(ask, "storage", AnswerCatch(e))
  /\ UNCHANGED <<pc, wizard, creation, view, periodVars, intervalVars, usageVars, todayVars>>

\* The timer fires: controller.abort() makes fetch reject with an AbortError.
TimerFires ==
  /\ ask.pc = "fetch"
  /\ ask.timer = "armed"
  /\ ask' = [Settled(ask, "timeout",
                      AnswerCatch(QueryOllamaCatch(Err("AbortError", "The operation was aborted."),
                                                   DefaultTimeoutMs)))
              EXCEPT !.timer = "fired"]
  /\ UNCHANGED <<pc, wizard, creation, view, periodVars, intervalVars, usageVars, todayVars>>

\* fetch rejects (no connection): the catch clause clears the timer.
FetchRejected ==
  /\ ask.pc = "fetch"
  /\ \E e \in NetworkErrors :
       ask' = [Settled(ask, "network", AnswerCatch(QueryOllamaCatch(e, DefaultTimeoutMs)))
               EXCEPT !.timer = "cleared"]
  /\ UNCHANGED <<pc, wizard, creation, view, periodVars, intervalVars, usageVars, todayVars>>

\* fetch resolves: clearTimeout, then the body is awaited.
FetchResolved ==
  /\ ask.pc = "fetch"
  /\ \E r \in Responses :
       ask' = [ask EXCEPT !.pc = IF r.ok THEN "json" ELSE "text",
                          !.timer = "cleared",
                          !.response = <<r>>]
  /\ UNCHANGED <<pc, wizard, creation, view, periodVars, intervalVars, usageVars, todayVars>>

\* response.text() of a non-OK response resolves: the API error is thrown.
TextRead ==
  /\ ask.pc = "text"
  /\ \E errorText \in ErrorTexts :
       ask' = Settled(ask, "http",
                AnswerCatch(QueryOllamaCatch(OllamaApiError(ask.response[1], errorText),
                                             DefaultTimeoutMs)))
  /\ UNCHANGED <<pc, wizard, creation, view, periodVars, intervalVars, usageVars, todayVars>>

\* Reading the body fails (the connection drops, or it is not JSON).
BodyFailed ==
  /\ ask.pc \in {"text", "json"}
  /\ \E e \in NetworkErrors \cup {Err("SyntaxError", "Unexpected token < in JSON")} :
       ask' = Settled(ask, "body", AnswerCatch(QueryOllamaCatch(e, DefaultTimeoutMs)))
  /\ UNCHANGED <<pc, wizard, creation, view, periodVars, intervalVars, usageVars, todayVars>>

\* response.json() resolves: data.response is returned, or its absence is
\* thrown.
JsonRead ==
  /\ ask.pc = "json"
  /\ \E r \in OllamaResponses :
       ask' = IF r = <<>> \/ r = <<"">>
                THEN [Settled(ask, "empty",
                              AnswerCatch(QueryOllamaCatch(NoResponseError, DefaultTimeoutMs)))
                      EXCEPT !.body = r]
                ELSE [Settled(ask, "answered", AnswerReturn(r[1], ask.trackerCount))
                      EXCEPT !.body = r]
  /\ UNCHANGED <<pc, wizard, creation, view, periodVars, intervalVars, usageVars, todayVars>>

NextAsk ==
  \/ AnswerQuestion
  \/ DataResolved
  \/ DataRejected
  \/ TimerFires
  \/ FetchRejected
  \/ FetchResolved
  \/ TextRead
  \/ BodyFailed
  \/ JsonRead

SpecAsk == InitAsk /\ [][NextAsk]_vars

AskSettled == ask.pc = "settled"

TimedOutMessage ==
  "Request timed out after 60 seconds. The model may be too slow or the prompt too complex."

\* C19: answerQuestion never rejects: a failure of the storage query, of
\* the network, of the HTTP status, of the body, an empty upstream
\* response or a timeout each settle it with answer "" and a non-empty
\* error; the timeout's error is the 'Request timed out after 60 seconds'
\* message; and a non-empty answer without error is returned only when the
\* upstream answered OK with a non-empty data.response, which is that
\* answer.
C19_FailuresBecomeErrorField ==
  /\ ask.promise # "rejected"
  /\ AskSettled =>
       /\ ask.promise = "resolved"
       /\ Len(ask.value) = 1
       /\ ask.event # "answered" =>
            /\ ask.value[1].answer = ""
            /\ Len(ask.value[1].error) = 1
            /\ ask.value[1].error[1] # ""
       /\ ask.event = "timeout" => ask.value[1].error = <<TimedOutMessage>>
       /\ (ask.value[1].answer # "" /\ ask.value[1].error = <<>>) =>
            /\ ask.event = "answered"
            /\ ask.timer = "cleared"
            /\ ask.response[1].ok
            /\ ask.body = <<ask.value[1].answer>>
       /\ ask.event = "answered" =>
            (ask.value[1].answer # "" /\ ask.value[1].error = <<>>)

\* The timer fired while fetch was pending, and the invocation settled
\* with the timed-out message in its error field.
C19_Witness ==
  /\ AskSettled
  /\ ask.event = "timeout"
  /\ ask.timer = "fired"
  /\ ask.value[1].answer = ""
  /\ ask.value[1].error = <<TimedOutMessage>>

(***************************************************************************)
(* The tracker-configuration wizard.  A value of a configuration field is  *)
(* [kind, text, items]: undefined, null, a string, the number 0 or an      *)
(* array.                                                                  *)
(***************************************************************************)
Undefined == [kind |-> "undefined", text |-> "", items |-> <<>>]

Null == [kind |-> "null", text |-> "", items |-> <<>>]

Str(s) == [kind |-> "string", text |-> s, items |-> <<>>]

Zero == [kind |-> "number", text |-> "0", items |-> <<>>]

List(items) == [kind |-> "array", text |-> "", items |-> items]

\* !!v
Truthy(v) ==
  \/ v.kind = "string" /\ v.text # ""
  \/ v.kind = "number" /\ v.text # "0"
  \/ v.kind = "array"

\* {}
EmptyConfig ==
  [type |-> Undefined, uom |-> Undefined, math |-> Undefined, score |-> Undefined,
   focus |-> Undefined, include |-> Undefined, selectedCategory |-> Undefined,
   waiting |-> FALSE]

\* existingConfig || {}, {...existingConfig}
ConfigOf(existingConfig) ==
  IF existingConfig = <<>> THEN EmptyConfig ELSE existingConfig[1]

\* Object.keys(UOMS), cut to two units.
UomKeys == {"num", "mile"}

\* The keys of UOM.toGroupedArray(), cut to two categories.
Categories == {"general", "distance"}

\* focusTypes.map(focus => focus.id), cut to two.
FocusIds == {"mind", "body"}

IsValueOrRange(config) == config.type = Str("value") \/ config.type = Str("range")

\* finalUOMHint && UOMS[finalUOMHint]
ValidHint(hint) == hint # <<>> /\ hint[1] \in UomKeys

Response(action, config, by) == [action |-> action, config |-> config, by |-> by]

\* Mutation: the question about math is left out.
startTrackerConfiguration_noMath(hint, existingConfig) ==
  LET config == ConfigOf(existingConfig)
      by == "startTrackerConfiguration" IN
  IF ~Truthy(config.type) THEN Response("needs_tracker_type", config, by)
  ELSE IF IsValueOrRange(config) /\ ~Truthy(config.uom)
    THEN IF ValidHint(hint) THEN Response("needs_uom", config, by)
         ELSE Response("needs_uom_category", config, by)
  ELSE IF ~Truthy(config.score) /\ config.score # Zero
    THEN Response("needs_positivity", config, by)
  ELSE IF config.focus = Undefined THEN Response("needs_focus", config, by)
  ELSE IF config.include = Undefined \/ config.include = Null
    THEN Response("needs_also_include", config, by)
  ELSE Response("create_tracker_with_config", config, by)

\* startTrackerConfiguration(trackerName, userMessage, value, existingConfig);
\* hint is the unit parsed from the message or inferred from the name.
startTrackerConfiguration(hint, existingConfig) ==
  LET config == ConfigOf(existingConfig)
      by == "startTrackerConfiguration" IN
  IF ~Truthy(config.type) THEN Response("needs_tracker_type", config, by)
  ELSE IF IsValueOrRange(config) /\ ~Truthy(config.uom)
    THEN IF ValidHint(hint) THEN Response("needs_uom", config, by)
         ELSE Response("needs_uom_category", config, by)
  ELSE IF IsValueOrRange(config) /\ Truthy(config.uom) /\ ~Truthy(config.math)
    THEN Response("needs_math", config, by)
  ELSE IF ~Truthy(config.score) /\ config.score # Zero
    THEN Response("needs_positivity", config, by)
  ELSE IF config.focus = Undefined THEN Response("needs_focus", config, by)
  ELSE IF config.include = Undefined \/ config.include = Null
    THEN Response("needs_also_include", config, by)
  ELSE Response("create_tracker_with_config", config, by)

\* A selected value: [quick, text] is '__quick__' + text when quick.
Plain(text) == [quick |-> FALSE, text |-> text]

Quick(text) == [quick |-> TRUE, text |-> text]

\* currentFocus.indexOf(v) > -1 ? currentFocus.filter(f => f !== v)
\*                              : [...currentFocus, v]
ToggleFocus(currentFocus, v) ==
  IF \E i \in 1..Len(currentFocus) : currentFocus[i] = v
    THEN SelectSeq(currentFocus, LAMBDA f : f # v)
    ELSE Append(currentFocus, v)

\* The uom_category and uom branches: a quick select, a divider, a
\* category (its units are shown) or, under uom, a unit.
SelectUom(configKey, selectedValue, existingConfig, hint) ==
  LET config == ConfigOf(existingConfig) IN
  IF selectedValue.quick
    THEN startTrackerConfiguration(hint, <<[config EXCEPT !.uom = Str(selectedValue.text)]>>)
  ELSE IF selectedValue.text = "__divider__"
    THEN startTrackerConfiguration(hint, existingConfig)
  ELSE IF configKey = "uom_category"
            \/ (selectedValue.text \notin UomKeys /\ selectedValue.text \in Categories)
    THEN Response("needs_uom",
                  [config EXCEPT !.selectedCategory = Str(selectedValue.text)],
                  "handleTrackerConfigSelection")
  ELSE startTrackerConfiguration(hint, <<[config EXCEPT !.uom = Str(selectedValue.text)]>>)

\* Mutation: Done passes the configuration on with its focus as it was.
SelectFocus_doneAsItWas(selectedValue, existingConfig, hint) ==
  LET config == ConfigOf(existingConfig)
      focus == IF Truthy(config.focus) THEN config.focus ELSE List(<<>>) IN
  IF selectedValue.text = "__skip__"
    THEN startTrackerConfiguration(hint, <<[config EXCEPT !.focus = List(<<>>)]>>)
  ELSE IF selectedValue.text = "__done__"
    THEN startTrackerConfiguration(hint, <<config>>)
  ELSE Response("needs_focus",
                [config EXCEPT !.focus = List(ToggleFocus(focus.items, selectedValue.text))],
                "handleTrackerConfigSelection")

\* The focus branch: skip, done or the toggle of one focus.
SelectFocus(selectedValue, existingConfig, hint) ==
  LET config == ConfigOf(existingConfig)
      focus == IF Truthy(config.focus) THEN config.focus ELSE List(<<>>) IN
  IF selectedValue.text = "__skip__"
    THEN startTrackerConfiguration(hint, <<[config EXCEPT !.focus = List(<<>>)]>>)
  ELSE IF selectedValue.text = "__done__"
    THEN startTrackerConfiguration(hint, <<[config EXCEPT !.focus = focus]>>)
  ELSE Response("needs_focus",
                [config EXCEPT !.focus = List(ToggleFocus(focus.items, selectedValue.text))],
                "handleTrackerConfigSelection")

\* The also_include branch: skip, yes or the content.
SelectInclude(selectedValue, existingConfig, hint) ==
  LET config == ConfigOf(existingConfig) IN
  IF selectedValue.text = "__skip__"
    THEN startTrackerConfiguration(hint, <<[config EXCEPT !.waiting = FALSE, !.include = Str("")]>>)
  ELSE IF selectedValue.text = "__yes__"
    THEN startTrackerConfiguration(hint, <<[config EXCEPT !.waiting = TRUE]>>)
  ELSE startTrackerConfiguration(hint, <<[config EXCEPT !.include = Str(selectedValue.text),
                                                        !.waiting = FALSE]>>)

\* handleTrackerConfigSelection(trackerName, configKey, selectedValue,
\*                              userMessage, value, existingConfig)
handleTrackerConfigSelection(configKey, selectedValue, existingConfig, hint) ==
  LET config == ConfigOf(existingConfig)
      text == IF selectedValue.quick THEN "__quick__" \o selectedValue.text
              ELSE selectedValue.text IN
  IF configKey = "uom_category" \/ configKey = "uom"
    THEN SelectUom(configKey, selectedValue, existingConfig, hint)
  ELSE IF configKey = "positivity"
    THEN startTrackerConfiguration(hint, <<[config EXCEPT !.score = Str(text)]>>)
  ELSE IF configKey = "focus" THEN SelectFocus(selectedValue, existingConfig, hint)
  ELSE IF configKey = "also_include" THEN SelectInclude(selectedValue, existingConfig, hint)
  ELSE IF configKey = "type"
    THEN startTrackerConfiguration(hint, <<[config EXCEPT !.type = Str(text)]>>)
  ELSE startTrackerConfiguration(hint, <<[config EXCEPT !.math = Str(text)]>>)

(***************************************************************************)
(* The wizard as a state machine: the view passes the configuration of     *)
(* the last response, the key of the question it showed and the value of   *)
(* the option that was chosen.                                             *)
(***************************************************************************)
\* The key the view passes for the question it shows.
ConfigKeyOf(action) ==
  CASE action = "needs_tracker_type" -> "type"
    [] action = "needs_uom_category" -> "uom_category"
    [] action = "needs_uom" -> "uom"
    [] action = "needs_math" -> "math"
    [] action = "needs_positivity" -> "positivity"
    [] action = "needs_focus" -> "focus"
    [] action = "needs_also_include" -> "also_include"

\* UOMS[key].type: the category of a unit.
CategoryOf(key) == IF key = "mile" THEN "distance" ELSE "general"

\* getDefaultUOMForCategory(category) where it is a key of UOMS ('meter',
\* the default of distance, is none of the two units kept here).
DefaultUom(category) == IF category = "general" THEN <<"num">> ELSE <<>>

\* uomOptions of startTrackerConfiguration with a valid hint: the hinted
\* unit as quick select, a divider, the other units of its category and
\* the other categories.
HintedUomOptions(hint) ==
  {Quick(hint), Plain("__divider__")}
    \cup {Plain(k) : k \in {u \in UomKeys : CategoryOf(u) = CategoryOf(hint) /\ u # hint}}
    \cup {Plain(c) : c \in {g \in Categories : g # CategoryOf(hint)}}

\* uomOptions of handleTrackerConfigSelection for a category: its default
\* unit as quick select with a divider, and its other units.
CategoryUomOptions(category) ==
  LET default == DefaultUom(category)
      units == {u \in UomKeys : CategoryOf(u) = category} IN
  (IF default # <<>> /\ default[1] \in units
     THEN {Quick(default[1]), Plain("__divider__")} ELSE {})
    \cup {Plain(k) : k \in {u \in units : default = <<>> \/ u # default[1]}}

\* The values of the options of a response (the content of "also
\* include" is typed into the input the view shows with the single option
\* skip).
Offered(response, hint) ==
  CASE response.action = "needs_tracker_type" ->
         {Plain(t) : t \in {"tick", "value", "range", "picker", "note"}}
    [] response.action = "needs_uom_category" -> {Plain(c) : c \in Categories}
    [] response.action = "needs_uom" ->
         IF response.by = "startTrackerConfiguration"
           THEN HintedUomOptions(hint[1])
           ELSE CategoryUomOptions(response.config.selectedCategory.text)
    [] response.action = "needs_math" -> {Plain("sum"), Plain("mean")}
    [] response.action = "needs_positivity" -> {Plain("1"), Plain("0"), Plain("-1")}
    [] response.action = "needs_focus" ->
         {Plain(f) : f \in FocusIds} \cup {Plain("__skip__"), Plain("__done__")}
    [] response.action = "needs_also_include" ->
         IF response.config.waiting
           THEN {Plain("__skip__"), Plain("#mood")}
           ELSE {Plain("__yes__"), Plain("__skip__")}

\* The configurations startTrackerConfiguration may be given.
Configs ==
  [type : {Undefined, Str(""), Str("tick"), Str("value"), Str("range"),
           Str("picker"), Str("note")},
   uom : {Undefined, Str(""), Str("mile")},
   math : {Undefined, Str("sum")},
   score : {Undefined, Str(""), Str("0"), Str("1"), Zero},
   focus : {Undefined, List(<<>>), List(<<"mind">>)},
   include : {Undefined, Null, Str(""), Str("#mood")},
   selectedCategory : {Undefined},
   waiting : BOOLEAN]

\* No hint, a unit, or a word that is no unit.
Hints == {<<>>, <<"mile">>, <<"parsec">>}

InitWizard ==
  /\ pc = "ready"
  /\ \E existingConfig \in {<<>>} \cup {<<c>> : c \in Configs}, hint \in Hints :
       wizard = [NoWizard EXCEPT !.config = existingConfig, !.hint = hint]
  /\ IdleAsk
  /\ IdleEntry
  /\ IdleView
  /\ IdlePeriods
  /\ IdleIntervals
  /\ IdleUsage
  /\ IdleToday

\* startTrackerConfiguration is called with the configuration at hand.
StartTrackerConfiguration ==
  /\ wizard.response = <<>>
  /\ wizard' = [wizard EXCEPT
                  !.response = <<startTrackerConfiguration(wizard.hint, wizard.config)>>]
  /\ UNCHANGED <<pc, ask, creation, view, periodVars, intervalVars, usageVars, todayVars>>

\* An option of the question shown is chosen: handleButtonClick passes it,
\* with the message's configuration, to handleTrackerConfigSelection.
SelectConfig ==
  /\ wizard.response # <<>>
  /\ wizard.response[1].action # "create_tracker_with_config"
  /\ \E selectedValue \in Offered(wizard.response[1], wizard.hint) :
       wizard' = [wizard EXCEPT
                   !.config = <<wizard.response[1].config>>,
                   !.selected = <<[configKey |-> ConfigKeyOf(wizard.response[1].action),
                                    selectedValue |-> selectedValue]>>,
                   !.response = <<handleTrackerConfigSelection(
                                     ConfigKeyOf(wizard.response[1].action), selectedValue,
                                     <<wizard.response[1].config>>, wizard.hint)>>]
  /\ UNCHANGED <<pc, ask, creation, view, periodVars, intervalVars, usageVars, todayVars>>

NextWizard ==
  \/ StartTrackerConfiguration
  \/ SelectConfig

SpecWizard == InitWizard /\ [][NextWizard]_vars

\* The words of the claim: what is set and what is defined.
TypeSet(config) == Truthy(config.type)

UomAndMathSet(config) == Truthy(config.uom) /\ Truthy(config.math)

ScoreSet(config) == Truthy(config.score) \/ config.score = Zero

FocusDefined(config) == config.focus # Undefined

IncludeDefined(config) == config.include # Undefined /\ config.include # Null

Complete(config) ==
  /\ TypeSet(config)
  /\ IsValueOrRange(config) => UomAndMathSet(config)
  /\ ScoreSet(config)
  /\ FocusDefined(config)
  /\ IncludeDefined(config)

\* The first missing item in the order type, uom, math, positivity, focus,
\* also-include.
FirstMissing(config) ==
  IF ~TypeSet(config) THEN "type"
  ELSE IF IsValueOrRange(config) /\ ~Truthy(config.uom) THEN "uom"
  ELSE IF IsValueOrRange(config) /\ ~Truthy(config.math) THEN "math"
  ELSE IF ~ScoreSet(config) THEN "positivity"
  ELSE IF ~FocusDefined(config) THEN "focus"
  ELSE IF ~IncludeDefined(config) THEN "also-include"
  ELSE "none"

\* The item an action asks for.
AskedItem(action) ==
  CASE action = "needs_tracker_type" -> "type"
    [] action \in {"needs_uom", "needs_uom_category"} -> "uom"
    [] action = "needs_math" -> "math"
    [] action = "needs_positivity" -> "positivity"
    [] action = "needs_focus" -> "focus"
    [] action = "needs_also_include" -> "also-include"
    [] action = "create_tracker_with_config" -> "none"

ReturnedByStart ==
  /\ wizard.response # <<>>
  /\ wizard.response[1].by = "startTrackerConfiguration"

\* C20: every response of startTrackerConfiguration has the action
\* create_tracker_with_config exactly when its configuration is complete
\* (type set; uom and math set for value and range; score set; focus
\* defined; include defined), and otherwise the action asking for the first
\* missing item in the order type, uom, math, positivity, focus,
\* also-include.
C20_CreateOnlyWhenComplete ==
  ReturnedByStart =>
    /\ wizard.response[1].action = "create_tracker_with_config"
         <=> Complete(wizard.response[1].config)
    /\ AskedItem(wizard.response[1].action) = FirstMissing(wizard.response[1].config)

\* A value tracker whose last answer (skipping "also include") completed
\* its configuration: an empty focus list and an empty include.
C20_Witness ==
  /\ ReturnedByStart
  /\ wizard.config # <<>>
  /\ wizard.config[1].include = Undefined
  /\ wizard.response[1].action = "create_tracker_with_config"
  /\ wizard.response[1].config.type = Str("value")
  /\ UomAndMathSet(wizard.response[1].config)
  /\ wizard.response[1].config.focus = List(<<>>)
  /\ wizard.response[1].config.include = Str("")

(***************************************************************************)
(* The wizard run from the start: the view calls startTrackerConfiguration *)
(* without a configuration, and the user goes on choosing among the        *)
(* options of the question shown until the tracker can be created.         *)
(***************************************************************************)
InitWizardRun ==
  /\ pc = "ready"
  /\ \E hint \in Hints : wizard = [NoWizard EXCEPT !.hint = hint]
  /\ IdleAsk
  /\ IdleEntry
  /\ IdleView
  /\ IdlePeriods
  /\ IdleIntervals
  /\ IdleUsage
  /\ IdleToday

SpecWizardRun ==
  /\ InitWizardRun
  /\ [][NextWizard]_vars
  /\ WF_vars(StartTrackerConfiguration)
  /\ WF_vars(SelectConfig)

Created ==
  /\ wizard.response # <<>>
  /\ wizard.response[1].action = "create_tracker_with_config"

\* The last selection was Done or Skip at the focus step.
ChoseDoneOrSkipAtFocus ==
  /\ wizard.selected # <<>>
  /\ wizard.selected[1].configKey = "focus"
  /\ wizard.selected[1].selectedValue.text \in {"__skip__", "__done__"}

\* The questions in the order they are asked: the unit is asked by
\* category (or with the hinted unit's options) and then within a category,
\* "also include" by yes or skip and then for its content.
QuestionRank(response) ==
  CASE response.action = "needs_tracker_type" -> 1
    [] response.action = "needs_uom_category" -> 2
    [] response.action = "needs_uom" ->
         IF response.by = "startTrackerConfiguration" THEN 2 ELSE 3
    [] response.action = "needs_math" -> 4
    [] response.action = "needs_positivity" -> 5
    [] response.action = "needs_focus" -> 6
    [] response.action = "needs_also_include" -> IF response.config.waiting THEN 8 ELSE 7
    [] response.action = "create_tracker_with_config" -> 9

\* A selection that is the toggle of a focus or a divider.
ToggleOrDivider(selected) ==
  \/ selected.configKey = "focus"
       /\ selected.selectedValue.text \notin {"__skip__", "__done__"}
  \/ ~selected.selectedValue.quick /\ selected.selectedValue.text = "__divider__"

\* A selection step that is neither leads on to a later question.
SelectionLeadsOn ==
  (wizard.response # <<>> /\ wizard'.response # wizard.response
     /\ ~ToggleOrDivider(wizard'.selected[1]))
    => /\ wizard'.response # <<>>
       /\ QuestionRank(wizard'.response[1]) > QuestionRank(wizard.response[1])

NoUnitForTickPickerNote ==
  (wizard.response # <<>>
     /\ wizard.response[1].config.type \in {Str("tick"), Str("picker"), Str("note")})
    => AskedItem(wizard.response[1].action) \notin {"uom", "math"}

\* C21: started from the empty configuration, with the user choosing
\* among the offered options for as long as a question is shown, a choice
\* of Done or Skip at the focus step is followed by
\* create_tracker_with_config; every selection other than a focus toggle
\* and a divider leads to a later question, never back to an answered one;
\* and a tick, picker or note tracker is never asked for its unit or math.
C21_WizardCompletes ==
  /\ ChoseDoneOrSkipAtFocus ~> Created
  /\ [][SelectionLeadsOn]_vars
  /\ []NoUnitForTickPickerNote

\* A range tracker completed through every question: unit, math, score,
\* two toggled focuses and a typed "also include".
C21_Witness ==
  /\ Created
  /\ wizard.response[1].config.type = Str("range")
  /\ UomAndMathSet(wizard.response[1].config)
  /\ wizard.response[1].config.focus = List(<<"mind", "body">>)
  /\ wizard.response[1].config.include = Str("#mood")
  /\ wizard.selected[1].configKey = "also_include"

(***************************************************************************)
(* handleEntryCreation and createLogEntry.  A note and an answer are the   *)
(* sequences of their words (the strings between spaces); a tracker is     *)
(* [tag, label, type, default, include] with type the tracker's own type.  *)
(***************************************************************************)
Tracker(tag, label, type, default, include) ==
  [tag |-> tag, label |-> label, type |-> type, default |-> default, include |-> include]

\* trackerName.toLowerCase().replace('#', '').trim(), tag.toLowerCase()
\* .replace('#', ''), label.toLowerCase(): on the names kept here.
Normalized(name) ==
  CASE name \in {"Water", "#water", "water"} -> "water"
    [] name \in {"Coffee", "#coffee"} -> "coffee"
    [] name \in {"Mood", "#mood"} -> "mood"
    [] name \in {"Meal", "#meal"} -> "meal"
    [] name \in {"Diary", "#diary"} -> "diary"
    [] name \in {"Run", "#run"} -> "run"
    [] OTHER -> name

\* a.includes(b), on normalized names.
Includes(a, b) == a = b \/ (a = "coffee" /\ b = "cof")

MinOf(S) == CHOOSE i \in S : \A j \in S : i <= j

\* findTrackerByName(trackerName): the exact match of the tag, then the
\* first tracker whose tag or label contains the name or is contained in it.
findTrackerByName(trackables, trackerName) ==
  LET normalizedName == Normalized(trackerName)
      exact == {i \in 1..Len(trackables) : Normalized(trackables[i].tag) = normalizedName}
      fuzzy == {i \in 1..Len(trackables) :
                  \/ Includes(Normalized(trackables[i].tag), normalizedName)
                  \/ Includes(normalizedName, Normalized(trackables[i].tag))
                  \/ Includes(Normalized(trackables[i].label), normalizedName)
                  \/ Includes(normalizedName, Normalized(trackables[i].label))} IN
  IF exact # {} THEN <<trackables[MinOf(exact)]>>
  ELSE IF fuzzy # {} THEN <<trackables[MinOf(fuzzy)]>>
  ELSE <<>>

\* `${tracker.tag}(${value})`
WithValue(tag, value) == tag \o "(" \o ToString(value) \o ")"

\* trackerObj.getIncluded(val).trim(): the included tag with the value.
getIncluded(include, val) == WithValue(include, val)

\* Mutation: a picker is not asked for its value.
NeedsValue_noPicker(trackerType) == trackerType \in {"value", "range"}

\* ['value', 'range', 'picker'].includes(trackerType)
NeedsValue(trackerType) == trackerType \in {"value", "range", "picker"}

\* createLogEntry: the note of the log.
NoteOf(tracker, value) ==
  IF tracker.type = "tick"
    THEN <<tracker.tag>>
           \o (IF tracker.include # <<>> THEN <<getIncluded(tracker.include[1], 1)>> ELSE <<>>)
  ELSE IF tracker.type = "note" \/ tracker.type = "picker" THEN <<tracker.tag>>
  ELSE <<IF value # <<>> THEN WithValue(tracker.tag, value[1])
         ELSE IF tracker.default # <<>> THEN WithValue(tracker.tag, tracker.default[1])
         ELSE tracker.tag>>
         \o (IF tracker.include # <<>>
               THEN <<getIncluded(tracker.include[1],
                                  IF value # <<>> THEN value[1]
                                  ELSE IF tracker.default # <<>> /\ tracker.default[1] # 0
                                         THEN tracker.default[1]
                                  ELSE 1)>>
               ELSE <<>>)

\* The responses of handleEntryCreation.
NeedsTrackerCreation ==
  [answer |-> <<"tracker?">>, action |-> <<"needs_tracker_creation">>, error |-> <<>>,
   trackerTag |-> <<>>, log |-> <<>>]

NeedsValueResponse(tracker) ==
  [answer |-> <<"How", "much", tracker.label \o "?">>, action |-> <<"needs_value">>,
   error |-> <<>>, trackerTag |-> <<tracker.tag>>, log |-> <<>>]

\* answer: `Added ${tracker.tag}${valueStr}` after its check mark.
Added(tracker, value, log) ==
  [answer |-> <<"Added", IF value # <<>> THEN WithValue(tracker.tag, value[1])
                          ELSE tracker.tag>>,
   action |-> <<"add_entry">>, error |-> <<>>, trackerTag |-> <<tracker.tag>>,
   log |-> <<log>>]

\* createLogEntry returned {success: false, error}.
NotAdded(error) ==
  [answer |-> <<"Sorry,", "I", "couldn't", "add", "that", "entry:", error>>,
   action |-> <<>>, error |-> <<error>>, trackerTag |-> <<>>, log |-> <<>>]

\* The catch clause of handleEntryCreation.
EntryCatch(error) ==
  [answer |-> <<>>, action |-> <<>>,
   error |-> <<IF error.kind = "Error" /\ error.message # ""
                 THEN error.message ELSE "Failed to create entry">>,
   trackerTag |-> <<>>, log |-> <<>>]

(***************************************************************************)
(* handleEntryCreation as a state machine: its awaits are the reading of   *)
(* the trackers, findTrackerByName, and in createLogEntry the reading of   *)
(* the trackers for the score and saveLog.                                 *)
(***************************************************************************)
\* The trackers in storage: one of each type, none, or a tick tracker and
\* a value tracker with a default and an include.
Storages ==
  { <<Tracker("#coffee", "Coffee", "tick", <<>>, <<"#caffeine">>),
      Tracker("#water", "Water", "value", <<>>, <<>>),
      Tracker("#mood", "Mood", "range", <<5>>, <<>>),
      Tracker("#meal", "Meal", "picker", <<>>, <<>>),
      Tracker("#diary", "Diary", "note", <<>>, <<>>),
      Tracker("#run", "Run", "timer", <<>>, <<>>)>>,
    <<>>,
    <<Tracker("#coffee", "Coffee", "tick", <<>>, <<>>),
      Tracker("#water", "Water", "value", <<0>>, <<"#hydration">>)>> }

\* The tracker names of the calls: none, '', an exact, a partial and an
\* unknown name.
TrackerNames ==
  {<<>>, <<"">>, <<"Water">>, <<"#coffee">>, <<"cof">>, <<"mood">>, <<"meal">>,
   <<"diary">>, <<"run">>, <<"unicorn">>}

EntryValues == {<<>>, <<0>>, <<2>>}

InitEntry ==
  /\ pc = "ready"
  /\ \E trackables \in Storages, trackerName \in TrackerNames, value \in EntryValues :
       creation = [NoEntry EXCEPT !.pc = "start", !.trackables = trackables,
                                  !.trackerName = trackerName, !.value = value]
  /\ IdleAsk
  /\ IdleWizard
  /\ IdleView
  /\ IdlePeriods
  /\ IdleIntervals
  /\ IdleUsage
  /\ IdleToday

\* handleEntryCreation(message, trackerName, value) up to
\* `await getTrackablesFromStorage()`.
HandleEntryCreation ==
  /\ creation.pc = "start"
  /\ creation' = [creation EXCEPT !.pc = "trackables"]
  /\ UNCHANGED <<pc, ask, wizard, view, periodVars, intervalVars, usageVars, todayVars>>

\* The trackers are read: without a tracker name the call returns, with
\* one it awaits findTrackerByName.
TrackablesResolved ==
  /\ creation.pc = "trackables"
  /\ creation' = IF creation.trackerName = <<>> \/ creation.trackerName = <<"">>
                    THEN [creation EXCEPT !.pc = "returned",
                                          !.response = <<NeedsTrackerCreation>>]
                    ELSE [creation EXCEPT !.pc = "find"]
  /\ UNCHANGED <<pc, ask, wizard, view, periodVars, intervalVars, usageVars, todayVars>>

\* findTrackerByName resolves: no tracker, a tracker that needs a value
\* that is missing, or createLogEntry builds the note and awaits the
\* trackers for the score.
FindResolved ==
  /\ creation.pc = "find"
  /\ LET tracker == findTrackerByName(creation.trackables, creation.trackerName[1]) IN
     creation' =
       IF tracker = <<>>
         THEN [creation EXCEPT !.pc = "returned", !.response = <<NeedsTrackerCreation>>]
       ELSE IF NeedsValue(tracker[1].type) /\ creation.value = <<>>
         THEN [creation EXCEPT !.pc = "returned", !.tracker = tracker,
                               !.response = <<NeedsValueResponse(tracker[1])>>]
       ELSE [creation EXCEPT !.pc = "score", !.tracker = tracker,
                             !.note = <<NoteOf(tracker[1], creation.value)>>]
  /\ UNCHANGED <<pc, ask, wizard, view, periodVars, intervalVars, usageVars, todayVars>>

\* The note is scored and saveLog awaited.
ScoreResolved ==
  /\ creation.pc = "score"
  /\ creation' = [creation EXCEPT !.pc = "save"]
  /\ UNCHANGED <<pc, ask, wizard, view, periodVars, intervalVars, usageVars, todayVars>>

\* saveLog resolves: the log is in storage and the call confirms it.
SaveResolved ==
  /\ creation.pc = "save"
  /\ creation' = [creation EXCEPT
                    !.pc = "returned",
                    !.saved = Append(creation.saved, creation.note[1]),
                    !.response = <<Added(creation.tracker[1], creation.value,
                                         creation.note[1])>>]
  /\ UNCHANGED <<pc, ask, wizard, view, periodVars, intervalVars, usageVars, todayVars>>

\* The storage fails under handleEntryCreation's own awaits.
EntryRejected ==
  /\ creation.pc \in {"trackables", "find"}
  /\ \E e \in StorageErrors :
       creation' = [creation EXCEPT !.pc = "returned", !.response = <<EntryCatch(e)>>]
  /\ UNCHANGED <<pc, ask, wizard, view, periodVars, intervalVars, usageVars, todayVars>>

\* The storage fails under createLogEntry, whose catch clause returns
\* {success: false, error: e.message || 'Failed to create log entry'}.
CreateRejected ==
  /\ creation.pc \in {"score", "save"}
  /\ \E e \in StorageErrors :
       creation' = [creation EXCEPT
                      !.pc = "returned",
                      !.response = <<NotAdded(IF e.kind = "Error" /\ e.message # ""
                                                THEN e.message
                                                ELSE "Failed to create log entry")>>]
  /\ UNCHANGED <<pc, ask, wizard, view, periodVars, intervalVars, usageVars, todayVars>>

NextEntry ==
  \/ HandleEntryCreation
  \/ TrackablesResolved
  \/ FindResolved
  \/ ScoreResolved
  \/ SaveResolved
  \/ EntryRejected
  \/ CreateRejected

SpecEntry == InitEntry /\ [][NextEntry]_vars

\* What the call was given.
NoTrackerName == creation.trackerName = <<>> \/ creation.trackerName = <<"">>

MatchingTracker ==
  IF NoTrackerName THEN <<>>
  ELSE findTrackerByName(creation.trackables, creation.trackerName[1])

ValueRequired ==
  /\ MatchingTracker # <<>>
  /\ MatchingTracker[1].type \in {"value", "range", "picker"}
  /\ creation.value = <<>>

Returned(action) ==
  /\ creation.pc = "returned"
  /\ creation.response[1].action = <<action>>

\* C22: a log is built or saved only for a tracker that matched the name
\* and, if its type is value, range or picker, with a value supplied; a
\* call that returns needs_tracker_creation had no name or no match, one
\* that returns needs_value had a match that requires the missing value,
\* and in these cases (and only these, storage failures aside) that is
\* what it returns, with no log built or saved.
C22_SavesOnlyWithTrackerAndValue ==
  /\ (creation.note # <<>> \/ creation.saved # <<>>) =>
       /\ MatchingTracker # <<>>
       /\ creation.tracker = MatchingTracker
       /\ ~ValueRequired
  /\ creation.saved # <<>> => Returned("add_entry")
  /\ (creation.pc = "returned" /\ creation.response[1].error = <<>>) =>
       /\ Returned("needs_tracker_creation") <=> MatchingTracker = <<>>
       /\ Returned("needs_value") <=> ValueRequired
       /\ Returned("add_entry") <=> creation.saved # <<>>
  /\ (Returned("needs_tracker_creation") \/ Returned("needs_value")) =>
       (creation.note = <<>> /\ creation.saved = <<>>)

\* A picker asked for without a value: the value is requested and nothing
\* is saved.
C22_Witness ==
  /\ Returned("needs_value")
  /\ creation.tracker # <<>>
  /\ creation.tracker[1].type = "picker"
  /\ creation.saved = <<>>

\* The words of a note or an answer.
Words(text) == {text[i] : i \in 1..Len(text)}

\* C23: whenever the call confirms 'Added <tag>(<value>)' for a supplied
\* value, the note of the log it saved contains '<tag>(<value>)', whatever
\* the type of the tracker.
C23_ConfirmationMatchesSaved ==
  (/\ Returned("add_entry")
   /\ creation.value # <<>>
   /\ WithValue(creation.tracker[1].tag, creation.value[1])
         \in Words(creation.response[1].answer))
    => /\ creation.saved # <<>>
       /\ WithValue(creation.tracker[1].tag, creation.value[1])
             \in Words(creation.saved[Len(creation.saved)])

(***************************************************************************)
(* The chat view.  A message is [id, role, content, action] with action    *)
(* absent or one action; an operation in flight is a handleSubmit or       *)
(* handleButtonClick invocation suspended at an await.  Ghost fields:      *)
(* started counts the operations the user started, defaults holds the      *)
(* messages whose value was saved as the tracker's default, completed is   *)
(* the kind of the operation that completed last.                          *)
(***************************************************************************)
notViewVars == <<pc, ask, wizard, creation, periodVars, intervalVars, usageVars, todayVars>>

Message(id, role, content, action) ==
  [id |-> id, role |-> role, content |-> content, action |-> action]

\* m.role === 'assistant' && m.content === '...'
TypingIndicator(m) == m.role = "assistant" /\ m.content = "..."

\* messages.filter(m => !(m.role === 'assistant' && m.content === '...'))
WithoutTyping(messages) == SelectSeq(messages, LAMBDA m : ~TypingIndicator(m))

\* messages.filter(m => m.id !== loadingMessageId)
WithoutId(messages, id) == SelectSeq(messages, LAMBDA m : m.id # id)

\* messages.map(m => m.id === messageId ? {...m, action: undefined} : m)
ClearAction(messages, id) ==
  [i \in 1..Len(messages) |->
     IF messages[i].id = id THEN [messages[i] EXCEPT !.action = <<>>] ELSE messages[i]]

HasAction(messages, action) ==
  {i \in 1..Len(messages) : messages[i].action = <<action>>}

MaxOf(S) == CHOOSE i \in S : \A j \in S : j <= i

\* handleSubmit: the message of the value request, by pendingValueRequest
\* or else the most recent message with action needs_value.
ValueRequestMessage(v) ==
  IF v.pendingValueRequest # <<>>
    THEN IF \E i \in 1..Len(v.messages) : v.messages[i].id = v.pendingValueRequest[1]
           THEN v.pendingValueRequest ELSE <<>>
  ELSE IF HasAction(v.messages, "needs_value") # {}
    THEN <<v.messages[MaxOf(HasAction(v.messages, "needs_value"))].id>>
  ELSE <<>>

\* The texts the user submits.
Texts == {"how was my sleep", "add water", "add water 8", "add unicorn"}

\* parseValueFromMessage(text) !== null
HasNumber(text) == text = "add water 8"

\* detectIntent(text).type === 'add_entry'
IsAddEntry(text) == text # "how was my sleep"

\* What answerQuestion resolves to: for a question an answer, for an entry
\* what handleEntryCreation answers (water is a value tracker, unicorn is
\* no tracker), for either an error.
AnswerResponses(text) ==
  CASE text = "how was my sleep" -> {"answer", "error"}
    [] text = "add water" -> {"needs_value", "error"}
    [] text = "add water 8" -> {"add_entry", "error"}
    [] text = "add unicorn" -> {"needs_tracker_creation", "error"}

\* The message a response is shown as.
ResponseMessage(id, response) ==
  IF response = "error" THEN Message(id, "error", "Error", <<>>)
  ELSE IF response = "answer" THEN Message(id, "assistant", "answer", <<>>)
  ELSE Message(id, "assistant", "answer", <<response>>)

\* pendingValueRequest after a response with an answer.
PendingAfter(v, id, response) ==
  IF response = "needs_value" THEN <<id>>
  ELSE IF response = "add_entry" THEN <<>>
  ELSE v.pendingValueRequest

\* handleButtonClick up to its try: loading, the typing indicator.
ButtonStarted(v, kind, messageId) ==
  [v EXCEPT !.loading = TRUE,
            !.messages = Append(v.messages, Message(v.nextId, "assistant", "...", <<>>)),
            !.nextId = v.nextId + 1,
            !.ops = v.ops \cup {[kind |-> kind, pc |-> "await", messageId |-> messageId,
                                 loadingId |-> v.nextId, text |-> ""]}]

\* The finally clause of handleButtonClick.
ButtonFinally(v, op, kind) ==
  [v EXCEPT !.loading = FALSE,
            !.messages = WithoutTyping(v.messages),
            !.ops = v.ops \ {op},
            !.completed = kind]

\* handleSubmit(), the text being in the input, up to its first await or
\* its return.
HandleSubmit(v, text) ==
  LET request == ValueRequestMessage(v)
      pending == IF v.pendingValueRequest = <<>> THEN request ELSE v.pendingValueRequest
      w == [v EXCEPT !.pendingValueRequest = pending, !.started = v.started + 1] IN
  IF request # <<>>
    THEN IF HasNumber(text) THEN ButtonStarted(w, "submit_value", request[1])
         ELSE [w EXCEPT
                 !.messages = Append(v.messages,
                                Message(v.nextId, "assistant", "Please enter a valid number.",
                                        <<>>)),
                 !.nextId = v.nextId + 1,
                 !.loading = FALSE,
                 !.completed = "invalid"]
  ELSE IF ~v.ollamaAvailable /\ w.pendingValueRequest = <<>>
    THEN [w EXCEPT
            !.messages = Append(v.messages, Message(v.nextId, "user", text, <<>>)),
            !.nextId = v.nextId + 1,
            !.loading = TRUE,
            !.ops = v.ops \cup {[kind |-> "submit", pc |-> "alert", messageId |-> 0,
                                 loadingId |-> 0, text |-> text]}]
  ELSE [w EXCEPT
          !.messages = v.messages \o <<Message(v.nextId, "user", text, <<>>),
                                       Message(v.nextId + 1, "assistant", "...", <<>>)>>,
          !.nextId = v.nextId + 2,
          !.loading = TRUE,
          !.ops = v.ops \cup {[kind |-> "submit", pc |-> "answerQuestion", messageId |-> 0,
                               loadingId |-> v.nextId + 1, text |-> text]}]

(***************************************************************************)
(* The chat view as a state machine: the user acts on what is enabled,     *)
(* the awaited calls resolve, the save_default timer fires.                *)
(***************************************************************************)
\* After onMount: the welcome message, or the setup error.
InitView ==
  /\ pc = "ready"
  /\ \E available \in BOOLEAN :
       view = [NoView EXCEPT
                 !.ollamaAvailable = available,
                 !.messages = <<IF available THEN Message(0, "assistant", "Hello", <<>>)
                                ELSE Message(0, "error", "Ollama is not available", <<>>)>>]
  /\ IdleAsk
  /\ IdleWizard
  /\ IdleEntry
  /\ IdlePeriods
  /\ IdleIntervals
  /\ IdleUsage
  /\ IdleToday

\* The user may start an operation.
MayStart == view.started < MaxOps

\* Enter in the textarea: disabled={loading || (!ollamaAvailable &&
\* !pendingValueRequest)}.
Submit ==
  /\ MayStart
  /\ ~view.loading
  /\ view.ollamaAvailable \/ view.pendingValueRequest # <<>>
  /\ \E text \in Texts : view' = HandleSubmit(view, text)
  /\ UNCHANGED notViewVars

\* `await Interact.alert(...)` is closed: loading = false; return.
AlertClosed ==
  /\ \E op \in view.ops :
       /\ op.pc = "alert"
       /\ view' = [view EXCEPT !.loading = FALSE, !.ops = view.ops \ {op},
                               !.completed = "alert"]
  /\ UNCHANGED notViewVars

\* answerQuestion resolves in handleSubmit.
AnswerResolved ==
  /\ \E op \in view.ops :
       /\ op.pc = "answerQuestion"
       /\ \E response \in AnswerResponses(op.text) :
            view' = [view EXCEPT
                       !.messages = Append(WithoutId(view.messages, op.loadingId),
                                           ResponseMessage(view.nextId, response)),
                       !.nextId = view.nextId + 1,
                       !.pendingValueRequest = PendingAfter(view, view.nextId, response),
                       !.loading = FALSE,
                       !.ops = view.ops \ {op},
                       !.completed = "submit"]
  /\ UNCHANGED notViewVars

\* The button "Yes, create" of a needs_tracker_creation message: the whole
\* handler, which shows the first question of the wizard.
ClickCreateTracker ==
  /\ MayStart
  /\ ~view.loading
  /\ \E i \in HasAction(view.messages, "needs_tracker_creation") :
       view' = [view EXCEPT
                  !.messages = WithoutTyping(
                                 Append(ClearAction(view.messages, view.messages[i].id),
                                        Message(view.nextId + 1, "assistant", "answer",
                                                <<"needs_tracker_type">>))),
                  !.nextId = view.nextId + 2,
                  !.loading = FALSE,
                  !.started = view.started + 1,
                  !.completed = "create_tracker"]
  /\ UNCHANGED notViewVars

\* The button "No, cancel": the whole handler.
ClickCancelTracker ==
  /\ MayStart
  /\ ~view.loading
  /\ \E i \in HasAction(view.messages, "needs_tracker_creation") :
       view' = [view EXCEPT
                  !.messages = WithoutTyping(
                                 Append(ClearAction(view.messages, view.messages[i].id),
                                        Message(view.nextId + 1, "assistant", "Okay", <<>>))),
                  !.nextId = view.nextId + 2,
                  !.loading = FALSE,
                  !.started = view.started + 1,
                  !.completed = "cancel_tracker"]
  /\ UNCHANGED notViewVars

\* The question that follows a question of the wizard (the questions
\* before focus are shown as needs_tracker_type).
NextQuestion(action) ==
  CASE action = "needs_tracker_type" -> "needs_focus"
    [] action = "needs_focus" -> "needs_also_include"
    [] action = "needs_also_include" -> "create_tracker_with_config"

\* An option of a wizard question: handleTrackerConfigSelection answers
\* with the next question, shown as a new message, or with
\* create_tracker_with_config, on which createTrackerWithConfig is awaited
\* (a focus toggle updates the message in place and changes nothing here).
ClickSelectConfig ==
  /\ ~view.loading
  /\ \E i \in 1..Len(view.messages) :
       /\ view.messages[i].action # <<>>
       /\ view.messages[i].action[1]
            \in {"needs_tracker_type", "needs_focus", "needs_also_include"}
       /\ LET message == view.messages[i]
              response == NextQuestion(message.action[1]) IN
          view' =
            IF response = "create_tracker_with_config"
              THEN [view EXCEPT
                      !.loading = TRUE,
                      !.nextId = view.nextId + 1,
                      !.ops = view.ops \cup {[kind |-> "select_config", pc |-> "await",
                                               messageId |-> message.id,
                                               loadingId |-> view.nextId, text |-> ""]}]
              ELSE [view EXCEPT
                      !.messages = WithoutTyping(
                                     Append(ClearAction(view.messages, message.id),
                                            Message(view.nextId + 1, "assistant", "answer",
                                                    <<response>>))),
                      !.nextId = view.nextId + 2,
                      !.loading = FALSE,
                      !.completed = "select_config"]
  /\ UNCHANGED notViewVars

\* createTrackerWithConfig resolves: the entry was added, or its value is
\* asked for, or it failed.
CreateResolved ==
  /\ \E op \in view.ops :
       /\ op.kind = "select_config"
       /\ \E response \in {"needs_value", "add_entry", "error"} :
            view' = ButtonFinally(
                      [view EXCEPT
                         !.messages = Append(ClearAction(view.messages, op.messageId),
                                             ResponseMessage(view.nextId, response)),
                         !.nextId = view.nextId + 1,
                         !.pendingValueRequest = PendingAfter(view, view.nextId, response)],
                      op, "select_config")
  /\ UNCHANGED notViewVars

\* The value input of a needs_value message (Enter or Submit), with or
\* without "Save as default value": submit_value starts and the timer of
\* save_default is set.
SubmitValue ==
  /\ MayStart
  /\ ~view.loading
  /\ \E i \in HasAction(view.messages, "needs_value"), saveDefault \in BOOLEAN :
       view' = [ButtonStarted(view, "submit_value", view.messages[i].id) EXCEPT
                  !.started = view.started + 1,
                  !.timers = IF saveDefault THEN view.timers \cup {view.messages[i].id}
                             ELSE view.timers]
  /\ UNCHANGED notViewVars

\* handleEntryCreation resolves in submit_value.
SubmitValueResolved ==
  /\ \E op \in view.ops :
       /\ op.kind = "submit_value"
       /\ \E response \in {"answer", "error"} :
            view' = ButtonFinally(
                      [view EXCEPT
                         !.messages = Append(ClearAction(
                                               WithoutTyping(
                                                 WithoutId(view.messages, op.loadingId)),
                                               op.messageId),
                                             ResponseMessage(view.nextId, response)),
                         !.nextId = view.nextId + 1,
                         !.pendingValueRequest = <<>>],
                      op, "submit_value")
  /\ UNCHANGED notViewVars

\* The timer fires: handleButtonClick('save_default', ...) up to
\* `await getTrackablesFromStorage()`.
SaveDefaultStarted ==
  /\ \E id \in view.timers :
       view' = [ButtonStarted(view, "save_default", id) EXCEPT
                  !.messages = WithoutTyping(view.messages),
                  !.timers = view.timers \ {id}]
  /\ UNCHANGED notViewVars

\* The trackers are read: the default is set and saveTrackersToStorage
\* awaited, or there is no such tracker or the read failed.
SaveDefaultTrackables ==
  /\ \E op \in view.ops :
       /\ op.kind = "save_default"
       /\ op.pc = "await"
       /\ \E found \in BOOLEAN :
            view' = IF found
                      THEN [view EXCEPT !.ops = (view.ops \ {op})
                                                  \cup {[op EXCEPT !.pc = "save"]}]
                      ELSE ButtonFinally(view, op, "save_default")
  /\ UNCHANGED notViewVars

\* saveTrackersToStorage resolves (the default is saved and confirmed) or
\* rejects.
SaveDefaultSaved ==
  /\ \E op \in view.ops :
       /\ op.kind = "save_default"
       /\ op.pc = "save"
       /\ \E saved \in BOOLEAN :
            view' = IF saved
                      THEN ButtonFinally(
                             [view EXCEPT
                                !.messages = Append(view.messages,
                                               Message(view.nextId, "assistant",
                                                       "Saved as the default value", <<>>)),
                                !.nextId = view.nextId + 1,
                                !.defaults = view.defaults \cup {op.messageId}],
                             op, "save_default")
                      ELSE ButtonFinally(view, op, "save_default")
  /\ UNCHANGED notViewVars

\* (The alert of handleSubmit is not among them: the textarea is disabled
\* where handleSubmit would show it.)
NextView ==
  \/ Submit
  \/ AnswerResolved
  \/ ClickCreateTracker
  \/ ClickCancelTracker
  \/ ClickSelectConfig
  \/ CreateResolved
  \/ SubmitValue
  \/ SubmitValueResolved
  \/ SaveDefaultStarted
  \/ SaveDefaultTrackables
  \/ SaveDefaultSaved

SpecView == InitView /\ [][NextView]_vars

\* A submit_value operation on the message is awaiting handleEntryCreation.
CreatingEntry(id) ==
  \E op \in view.ops : op.kind = "submit_value" /\ op.messageId = id

\* C24: with 'Save as default value' checked, the tracker's default is
\* saved only after the entry creation started by submit_value has
\* completed, however submit_value and the delayed save_default interleave:
\* no default is saved for a message whose entry creation is in flight.
C24_DefaultSavedAfterEntryCreation ==
  \A id \in view.defaults : ~CreatingEntry(id)

TypingShown == \E i \in 1..Len(view.messages) : TypingIndicator(view.messages[i])

\* All operations have completed: loading is false and no typing indicator
\* is shown.
QuietWhenDone ==
  view.ops = {} /\ view.timers = {} => ~view.loading /\ ~TypingShown

\* C26: loading is true while any handleSubmit or handleButtonClick
\* operation is in flight, so no second operation starts before the first
\* has completed; once all have completed (and no save_default is still to
\* come) loading is false and no typing indicator is shown.
C26_LoadingCoversOperations ==
  /\ view.ops # {} => view.loading
  /\ Cardinality(view.ops) <= 1
  /\ QuietWhenDone

\* A text with no number is submitted while a value request is open.
SubmitsNoNumber ==
  /\ Submit
  /\ ValueRequestMessage(view) # <<>>
  /\ \E text \in Texts : ~HasNumber(text) /\ view' = HandleSubmit(view, text)

OnlyAsksForNumber ==
  /\ view'.ops = view.ops
  /\ view'.messages
       = Append(view.messages,
                Message(view.nextId, "assistant", "Please enter a valid number.", <<>>))

NoValueRequestAfter ==
  /\ view'.pendingValueRequest = <<>>
  /\ HasAction(view'.messages, "needs_value") = {}

\* C27: at most one value request is open: at most one message carries
\* action needs_value; when a submit_value completes pendingValueRequest is
\* null and no message carries needs_value; a text with no number submitted
\* while a value request is open starts no operation and only adds
\* 'Please enter a valid number.'.
C27_AtMostOneValueRequest ==
  /\ [](Cardinality(HasAction(view.messages, "needs_value")) <= 1)
  /\ [][SubmitValueResolved => NoValueRequestAfter]_vars
  /\ [][SubmitsNoNumber => OnlyAsksForNumber]_vars

(***************************************************************************)
(* handleSubmit as a function of the view's state: the state is drawn      *)
(* from the states the view can be in, the function is called once with    *)
(* a text (whether or not the textarea lets the user), and the awaited     *)
(* calls resolve.                                                          *)
(***************************************************************************)
\* What the earlier messages of a chat may be: answers, prompts for a
\* value, prompts to create a tracker.
Histories == SeqsUpTo({"answer", "needs_value", "needs_tracker_creation"}, MaxHistory)

\* The messages of a history, after the first message.
HistoryMessages(first, history) ==
  <<first>> \o [i \in 1..Len(history) |-> ResponseMessage(i, history[i])]

\* Without Ollama the view shows the setup error and nothing was asked;
\* with it there is a history, and a value request is pending if one of
\* its prompts for a value was the last to be answered with one.
InitSubmit ==
  /\ pc = "ready"
  /\ \/ view = [NoView EXCEPT
                  !.messages = <<Message(0, "error", "Ollama is not available", <<>>)>>]
     \/ \E history \in Histories :
          \E pending \in {<<>>} \cup {<<i>> : i \in {j \in 1..Len(history) :
                                                      history[j] = "needs_value"}} :
            view = [NoView EXCEPT
                      !.ollamaAvailable = TRUE,
                      !.messages = HistoryMessages(Message(0, "assistant", "Hello", <<>>),
                                                   history),
                      !.nextId = Len(history) + 1,
                      !.pendingValueRequest = pending]
  /\ IdleAsk
  /\ IdleWizard
  /\ IdleEntry
  /\ IdlePeriods
  /\ IdleIntervals
  /\ IdleUsage
  /\ IdleToday

\* handleSubmit() with a text in the input.
CallHandleSubmit ==
  /\ view.started = 0
  /\ \E text \in Texts : view' = HandleSubmit(view, text)
  /\ UNCHANGED notViewVars

NextSubmit ==
  \/ CallHandleSubmit
  \/ AlertClosed
  \/ AnswerResolved
  \/ SubmitValueResolved

SpecSubmit == InitSubmit /\ [][NextSubmit]_vars

\* C25: entry creation does not require Ollama: with Ollama unavailable
\* and no value request pending, an add-entry message submitted through
\* handleSubmit reaches answerQuestion and is not stopped by the
\* availability check.
C25_EntryCreationWithoutOllama ==
  \A op \in view.ops :
    (~view.ollamaAvailable /\ IsAddEntry(op.text) /\ op.kind = "submit")
      => op.pc = "answerQuestion"

====
